---- MODULE Spec2Model ----
(***************************************************************************)
(* The Pipeline execution engine of the document processor                 *)
(* (modern-doc-processor/src/core/pipeline.py) and its callers.            *)
(*                                                                         *)
(* A Pipeline owns an ordered list of named steps and one metrics bucket   *)
(* per step name.  Worker threads call run(document); a run is modelled    *)
(* statement by statement, because the read-modify-write of a counter      *)
(* (`+=` on a dict entry) is not atomic and runs of several threads        *)
(* interleave.  Dicts and lists are heap objects named by references, so   *)
(* that copying and aliasing are visible.                                  *)
(***************************************************************************)
EXTENDS Integers, Sequences, FiniteSets, TLC

\* ---------------------------------------------------------------- bounds
MaxSteps == 3
MaxWorkers == 2
MaxFiles == 2
MaxSharedSteps == 1
MaxWords == 2
MaxChars == 3

\* ------------------------------------------------------------- constants
\* The step names the callers register, in registration order.
NameTable == <<"preprocess", "ocr", "classify", "extract", "store", "index">>

Threads == 1 .. MaxWorkers
\* Sample values of time.time() - start_time (line 47).
Durations == {1, 2}

\* Markers for "no such key" / "no such object".
NoKey == "NoKey"
None == "None"

\* The dict objects a run can hold a reference to: the caller's document,
\* the copy run() makes of it, and a dict a step built and returned.
DictRefs == {"document", "copy", "fresh"}
\* The list objects: a pipeline_steps list the caller put on its document,
\* and the list run() creates.
ListRefs == {"caller_list", "run_list"}

\* The nested dict objects: object t is the metadata dict of the document
\* built for the call that worker t executes (batch_process.py 119), object 0
\* the metadata dict of a record that exists before any call.
ObjIds == 0 .. MaxWorkers

\* A step as registered: its name and the `critical` attribute of its function.
StepLists ==
    UNION { [1 .. n -> [name : {NameTable[i] : i \in 1 .. 6}, critical : BOOLEAN]]
            : n \in 0 .. MaxSteps }

\* Names are registered by position (no two steps share a name).
DistinctlyNamed(s) == \A i \in 1 .. Len(s) : s[i].name = NameTable[i]

StepNamesOf(s) == { s[i].name : i \in 1 .. Len(s) }

\* ------------------------------------------------------------- variables
VARIABLES
    steps,        \* self.steps
    metrics,      \* self.metrics : name -> [success, error, time]
    max_workers,  \* size of the thread pool that issues run() calls
    pc,           \* per thread: position inside run()
    dicts,        \* per thread: DictRefs -> contents of the dict object
    lists,        \* per thread: ListRefs -> contents of the list object
    current_doc,  \* per thread: local variable current_doc (a DictRef or None)
    step_no,      \* per thread: position in self.steps of the current iteration
    duration,     \* per thread: local variable duration
    reg,          \* per thread: value loaded by the read half of a `+=`
    exc,          \* per thread: the exception in flight ("none" when none)
    calls,        \* per thread: history of the step indices invoked by this run
    given,        \* per thread: history, contents of the document when passed in
    files,        \* number of documents the caller has still to hand to run()
    attempts,     \* history: name -> [ok, failed, oktime] of the step functions
    frame,        \* get_metrics: its position and local variables
    result,       \* get_metrics: local variable result, name -> entry
    returned,     \* the mapping the last get_metrics() call handed to its caller
    previous,     \* history: the mapping of the call before, if no run() came since
    objects       \* the nested dict objects (document["metadata"]), by identity

\* The components the steps are bound methods of, and the callers' results.
VARIABLES
    out,              \* per thread: what process_document handed back last
    keywords,         \* Classifier: self.keywords
    document_classes, \* ZeroShotDocumentClassifier: self.document_classes
    probe,            \* the (file_type, content) that is classified again and again
    cdoc,             \* the document Classifier.classify was last called on
    seen,             \* history of Classifier.classify on the probe
    zs,               \* history of ZeroShotDocumentClassifier.classify on the probe
    config,           \* constructor arguments and environment of the components
    llm_client,       \* Extractor: self.llm_client
    vector_store,     \* VectorStore: self.db_path
    extraction,       \* the last extraction call: its arguments and its result
    stored            \* document["storage"]["status"] after the last store_document

\* The callers' own operations: one document on its way through the six
\* registered steps, the batch of process_directory, and the Config objects.
VARIABLES
    record,           \* main.py: the record on its way through the registered steps
    work,             \* history: per step called, whether its work was done
    batch,            \* process_directory: futures, results and counters
    config_objects    \* Config: the dict objects of the class and of its instances

callerVars == <<record, work, batch, config_objects>>

classifyVars == <<keywords, document_classes, probe, cdoc, seen, zs>>

extractVars == <<config, llm_client, vector_store, extraction, stored>>

componentVars == <<out, classifyVars, extractVars, callerVars>>

vars == <<steps, metrics, max_workers, pc, dicts, lists, current_doc, step_no,
          duration, reg, exc, calls, given, files, attempts,
          frame, result, returned, previous, objects, componentVars>>

\* The variables of the run() calls, and those of the get_metrics() calls.
runVars == <<pc, dicts, lists, current_doc, step_no, duration, reg, exc, calls,
             given, files, attempts>>
readVars == <<frame, result, returned>>
pipelineVars == <<steps, metrics, max_workers, runVars, readVars, previous, objects, out,
                  callerVars>>

\* ------------------------------------------------------------- Classifier.__init__
\* A text is a sequence of words (its words, separated by blanks); a keyword
\* or indicator phrase is the sequence of its words.
Vocabulary ==
    {"invoice", "INVOICE", "number", "receipt", "dear", "billing", "contract", "from:"}

Texts == UNION { [1 .. n -> Vocabulary] : n \in 0 .. MaxWords }

\* document["content"]: None (as process_document builds the document), or
\* a text (the empty text included).
Contents == {[none |-> TRUE, text |-> <<>>]} \cup {[none |-> FALSE, text |-> x] : x \in Texts}

\* Values of document["file_type"]; "" stands for a document without the key.
FileTypes == {".PDF", ".jpg", ".doc", ".xlsx", ".txt", ""}

\* The documents classified between two classifications of the probe.
OtherDocuments ==
    { [file_type |-> ".pdf", content |-> [none |-> FALSE, text |-> <<"invoice">>]],
      [file_type |-> "", content |-> [none |-> FALSE, text |-> <<"dear", "receipt">>]] }

\* classifier.py 20-27: self.keywords, in the order of the dict literal.
Keywords ==
    << [doc_type |-> "invoice",
        keywords |-> << <<"invoice">>, <<"bill">>, <<"payment", "due">>,
                        <<"amount", "due">>, <<"invoice", "number">>,
                        <<"invoice", "date">> >>],
       [doc_type |-> "receipt",
        keywords |-> << <<"receipt">>, <<"transaction">>, <<"payment", "received">>,
                        <<"thank", "you", "for", "your", "purchase">>,
                        <<"cashier">> >>],
       [doc_type |-> "contract",
        keywords |-> << <<"agreement">>, <<"contract">>,
                        <<"terms", "and", "conditions">>, <<"parties">>,
                        <<"hereby", "agree">> >>],
       [doc_type |-> "letter",
        keywords |-> << <<"dear">>, <<"sincerely">>, <<"regards">>,
                        <<"to", "whom", "it", "may", "concern">> >>],
       [doc_type |-> "report",
        keywords |-> << <<"report">>, <<"analysis">>, <<"findings">>,
                        <<"executive", "summary">>, <<"conclusion">> >>],
       [doc_type |-> "form",
        keywords |-> << <<"form">>, <<"please", "fill">>, <<"signature">>,
                        <<"date", "of", "birth">>, <<"applicant">> >>] >>

\* zero_shot.py 16-73: self.document_classes, in the order of the dict
\* literal; a weight is kept in tenths (1.0 is 10).
DocumentClasses ==
    << [class |-> "invoice", weight |-> 10,
        indicators |-> << <<"invoice">>, <<"bill">>, <<"payment">>, <<"amount", "due">>,
                          <<"tax">>, <<"total">>, <<"invoice", "number">>,
                          <<"invoice", "date">>, <<"customer">>, <<"vendor">> >>],
       [class |-> "receipt", weight |-> 9,
        indicators |-> << <<"receipt">>, <<"thank", "you", "for", "your", "purchase">>,
                          <<"store">>, <<"item">>, <<"cashier">>, <<"cash">>,
                          <<"change">>, <<"total">>, <<"paid">>,
                          <<"customer", "copy">> >>],
       [class |-> "contract", weight |-> 10,
        indicators |-> << <<"agreement">>, <<"contract">>, <<"terms">>, <<"conditions">>,
                          <<"parties">>, <<"hereby", "agree">>, <<"signature">>,
                          <<"signed">>, <<"dated">>, <<"legal">> >>],
       [class |-> "medical_record", weight |-> 11,
        indicators |-> << <<"patient">>, <<"diagnosis">>, <<"doctor">>, <<"treatment">>,
                          <<"hospital">>, <<"medical">>, <<"health">>,
                          <<"prescription">>, <<"symptoms">>, <<"medication">> >>],
       [class |-> "resume", weight |-> 8,
        indicators |-> << <<"resume">>, <<"cv">>, <<"curriculum", "vitae">>,
                          <<"experience">>, <<"education">>, <<"skills">>,
                          <<"employment">>, <<"job">>, <<"career">>,
                          <<"professional">> >>],
       [class |-> "email", weight |-> 9,
        indicators |-> << <<"from:">>, <<"to:">>, <<"subject:">>, <<"sent:">>, <<"cc:">>,
                          <<"bcc:">>, <<"forwarded">>, <<"replied">>,
                          <<"original", "message">>, <<"regards">> >>],
       [class |-> "scientific_paper", weight |-> 11,
        indicators |-> << <<"abstract">>, <<"introduction">>, <<"methodology">>,
                          <<"results">>, <<"conclusion">>, <<"references">>,
                          <<"journal">>, <<"doi">>, <<"fig.">>, <<"et", "al.">> >>],
       [class |-> "letter", weight |-> 8,
        indicators |-> << <<"dear">>, <<"sincerely">>, <<"regards">>,
                          <<"to", "whom", "it", "may", "concern">>, <<"letter">>,
                          <<"addressed">>, <<"writing", "to">>, <<"yours", "truly">>,
                          <<"date:">> >>] >>

\* No document has been classified yet.
NoDocument == [file_type |-> "", content |-> [none |-> TRUE, text |-> <<>>],
               doc_type |-> NoKey]

\* No call has been made yet: the result of the first call, the result of
\* the last one, the number of calls (up to two) and whether another
\* document was classified since the first call.
NoCalls(nothing) == [first |-> nothing, last |-> nothing, count |-> 0, between |-> FALSE]

\* The place of a zero-shot result that has not been computed.
NoClass == [class |-> NoKey, confidence |-> <<0, 1>>]

\* The classifiers as constructed, asked to classify the document p.
Classifiers(p) ==
    /\ keywords = Keywords
    /\ document_classes = DocumentClasses
    /\ probe = p
    /\ cdoc = NoDocument
    /\ seen = NoCalls(NoKey)
    /\ zs = NoCalls(NoClass)

\* ------------------------------------------------------------- Extractor.__init__
\* A JSON / Python value: its type, and its characters (a string), its
\* mantissa and number of decimals (a number) or its number of entries (a
\* list or dict).
Value(t, s, n, k) == [type |-> t, str |-> s, num |-> n, size |-> k]
NullValue == Value("null", <<>>, <<0, 0>>, 0)
Str(s) == Value("str", s, <<0, 0>>, 0)
Float(n) == Value("float", <<>>, n, 0)
IntValue(i) == Value("int", <<>>, <<i, 0>>, 0)
List(k) == Value("list", <<>>, <<0, 0>>, k)
Dict(k) == Value("dict", <<>>, <<0, 0>>, k)

\* The values of extracted_data: a mapping from field names to values, or
\* another JSON value.
MappingOf(f) == [kind |-> "mapping", fields |-> f]
EmptyMapping == MappingOf([f \in {} |-> NullValue])
NonMapping(k) == [kind |-> k, fields |-> [f \in {} |-> NullValue]]

\* The characters a number is written with in a text.
Digits == {"1", "5"}
Chars == Digits \cup {",", "."}
Numbers == UNION { [1 .. n -> Chars] : n \in 0 .. MaxChars }

\* document["content"]: None, "", 'hello world', or a line "<label>: <number>"
\* with or without a currency symbol before the number.
Labels == {"Subtotal", "Tax", "Total"}
TextOf(kind, label, symbol, number) ==
    [kind |-> kind, label |-> label, symbol |-> symbol, number |-> number]
NoContent == TextOf("none", "", FALSE, <<>>)
EmptyContent == TextOf("empty", "", FALSE, <<>>)
HelloWorld == TextOf("text", "hello world", FALSE, <<>>)
ContentsToExtract ==
    {NoContent, EmptyContent, HelloWorld}
        \cup {TextOf("text", l, y, n) : l \in Labels, y \in BOOLEAN, n \in Numbers}

\* document["doc_type"]; "unknown" is also the value read when the key is
\* absent, and has no schema.
DocTypes == {"invoice", "receipt", "unknown"}

\* extractor.py 26-73: self.schemas, the top-level fields and their types.
ExtractorSchemas ==
    [invoice |-> [invoice_number |-> "string", date |-> "string", due_date |-> "string",
                  vendor |-> "object", customer |-> "object", line_items |-> "array",
                  subtotal |-> "number", tax |-> "number", total |-> "number",
                  payment_terms |-> "string"],
     receipt |-> [merchant_name |-> "string", store_address |-> "string",
                  transaction_date |-> "string", transaction_time |-> "string",
                  items |-> "array", subtotal |-> "number", tax |-> "number",
                  total |-> "number", payment_method |-> "string",
                  card_info |-> "string"]]

\* A field of a schema of the RAG engine: schema["properties"][name].
Field(name, type, has_default, default) ==
    [name |-> name, type |-> type, has_default |-> has_default, default |-> default]
Plain(name, type) == Field(name, type, FALSE, NullValue)

TypeTags == {"string", "number", "integer", "array", "object"}

\* schemas/invoice.py 3-148: INVOICE_SCHEMA
InvoiceSchema ==
    << Plain("invoice_number", "string"), Plain("date", "string"),
       Plain("due_date", "string"), Plain("vendor", "object"),
       Plain("customer", "object"), Plain("subtotal", "number"),
       Plain("tax", "number"), Plain("total", "number"),
       Plain("currency", "string"), Plain("payment_terms", "string"),
       Plain("line_items", "array"), Plain("notes", "string") >>

\* schemas/__init__.py 116-145: the schema of a class without one of its own
GenericSchema ==
    << Plain("title", "string"), Plain("date", "string"),
       Field("key_entities", "array", TRUE, List(0)),
       Field("content_summary", "string", TRUE, Str(<<>>)) >>

\* A default a schema may declare for a field of the type.
DefaultOf(type) ==
    CASE type = "string" -> Str(<<"n/a">>)
      [] type = "number" -> Float(<<15, 1>>)
      [] type = "integer" -> IntValue(1)
      [] type = "array" -> List(1)
      [] type = "object" -> Dict(1)

\* The schemas handed to the RAG engine: those of the repository, and one
\* field of every type with and without a declared default.
Schemas ==
    {InvoiceSchema, GenericSchema}
        \cup {<<Plain("field", t)>> : t \in TypeTags}
        \cup {<<Field("field", t, TRUE, DefaultOf(t))>> : t \in TypeTags}

\* Extractor(llm_provider, api_key, model) with the environment variable of
\* the provider, and VectorStore(db_url).
Providers == {"openai", "anthropic", "OpenAI", "cohere"}
DbUrls == {None, "sqlite:///documents.db", "sqlite:///", "postgresql://db"}
Configs ==
    [provider : Providers, api_key : BOOLEAN, env_key : BOOLEAN, model : BOOLEAN,
     db_url : DbUrls]

\* The default arguments: Extractor(llm_provider="openai", api_key=None,
\* model=None) and VectorStore(db_url=None), no key in the environment.
DefaultConfig ==
    [provider |-> "openai", api_key |-> FALSE, env_key |-> FALSE, model |-> FALSE,
     db_url |-> None]

NotBuilt == [built |-> "no", provider |-> "", api_key |-> FALSE]
NoStore == [built |-> "no", db_path |-> None]

\* The arguments of an extraction call that has not been made: a document
\* for Extractor.extract_data (no schema), or a schema for
\* RAGEngine.extract_data.
Request(doc_type, content, schema) ==
    [engine |-> "none", doc_type |-> doc_type, content |-> content, schema |-> schema,
     reply |-> "none", mode |-> "none",
     captured |-> [f \in {} |-> <<>>], extracted_data |-> NonMapping("none")]

Requests ==
    {Request(d, c, <<>>) : d \in DocTypes, c \in ContentsToExtract}
        \cup {Request("", HelloWorld, x) : x \in Schemas}

\* The components before their construction with the arguments c, and the
\* extraction r that will be asked of them.
Unbuilt(c, r) ==
    /\ config = c
    /\ llm_client = NotBuilt
    /\ vector_store = NoStore
    /\ extraction = r
    /\ stored = NoKey

\* No document is on its way, no directory is being processed and no Config
\* has been constructed.
NoDoc == [at |-> 0]
NoBatch == [state |-> "none"]
NoConfigs == [state |-> "none"]

Uncalled ==
    /\ record = NoDoc
    /\ work = <<>>
    /\ batch = NoBatch
    /\ config_objects = NoConfigs

\* The components as the callers construct them (main.py 37-42,
\* batch_process.py 51-55), their methods not yet called.  The Classifier
\* the callers import (src/classification/classifier.py 10-12) has no table.
Components ==
    /\ keywords = <<>>
    /\ document_classes = <<>>
    /\ probe = [file_type |-> "", content |-> [none |-> TRUE, text |-> <<>>]]
    /\ cdoc = NoDocument
    /\ seen = NoCalls(NoKey)
    /\ zs = NoCalls(NoClass)
    /\ Unbuilt(DefaultConfig, Request("", NoContent, <<>>))
    /\ Uncalled

\* ------------------------------------------------------------- Pipeline.__init__
ZeroMetrics(s) ==
    [n \in StepNamesOf(s) |-> [success |-> 0, error |-> 0, time |-> 0]]

\* A reference that no dict object is bound to.
Unallocated == [allocated |-> FALSE]

EmptyHeap == [r \in DictRefs |-> Unallocated]

\* No mapping is held, and a mapping m is held.
NoMapping == [held |-> FALSE, map |-> <<>>]
Mapping(m) == [held |-> TRUE, map |-> m]

\* process_document has handed back nothing yet.
NoRecord == [status |-> NoKey, run |-> NoKey, artifact |-> NoKey]

\* get_metrics is not being executed.
IdleFrame == [at |-> "idle", k |-> 0, a |-> 0, total |-> 0, avg_time |-> <<0, 1>>,
              success |-> 0, error |-> 0]

\* The state after Pipeline(steps) was constructed by a caller that has nfiles
\* documents to process and issues its run() calls from w threads.
Constructed(s, w, nfiles) ==
    /\ steps = s
    /\ metrics = ZeroMetrics(steps)
    /\ max_workers = w
    /\ pc = [t \in Threads |-> "idle"]
    /\ dicts = [t \in Threads |-> EmptyHeap]
    /\ lists = [t \in Threads |-> [l \in ListRefs |-> <<>>]]
    /\ current_doc = [t \in Threads |-> None]
    /\ step_no = [t \in Threads |-> 0]
    /\ duration = [t \in Threads |-> 0]
    /\ reg = [t \in Threads |-> 0]
    /\ exc = [t \in Threads |-> "none"]
    /\ calls = [t \in Threads |-> <<>>]
    /\ given = [t \in Threads |-> Unallocated]
    /\ files = nfiles
    /\ attempts = [n \in StepNamesOf(steps) |-> [ok |-> 0, failed |-> 0, oktime |-> 0]]
    /\ frame = IdleFrame
    /\ result = <<>>
    /\ returned = NoMapping
    /\ previous = NoMapping
    /\ objects = [m \in ObjIds |-> 0]
    /\ out = [t \in Threads |-> NoRecord]

Registrations(n) == { l \in StepLists : DistinctlyNamed(l) /\ Len(l) <= n }

\* main.py: the process builds its Pipeline and runs the one document named
\* by --file through it.
Init ==
    /\ \E s \in Registrations(MaxSteps) : Constructed(s, 1, 1)
    /\ Components

\* batch_process.py with --workers 1: the files of a directory go through one
\* Pipeline, one after the other.
InitSerial ==
    /\ \E s \in Registrations(MaxSharedSteps), n \in 1 .. MaxFiles : Constructed(s, 1, n)
    /\ Components

\* batch_process.py: a pool of max_workers threads shares one Pipeline.
InitShared ==
    /\ \E s \in Registrations(MaxSharedSteps), n \in 1 .. MaxFiles :
           Constructed(s, MaxWorkers, n)
    /\ Components

\* ------------------------------------------------------------- Pipeline.run
\* line 33: document.copy() builds a new dict object with the same items.
DictCopy(d) == d

\* (current_doc = document, without the copy)
AliasedDoc == "document"

\* line 33: the object current_doc is bound to after the copy.
CopiedDoc == "copy"

\* The number of calls into the Pipeline that are being executed.
InFlight ==
    Cardinality({ u \in Threads : pc[u] # "idle" })
        + (IF frame.at # "idle" THEN 1 ELSE 0)

\* The thread pool hands a call to a free worker (the lowest, by symmetry).
FreeWorker(t) ==
    /\ pc[t] = "idle"
    /\ \A u \in Threads : u < t => pc[u] # "idle"
    /\ InFlight < max_workers

\* An entry some earlier processing left in the caller's pipeline_steps.
StaleEntry == [step |-> "earlier", status |-> "success", duration |-> 1]

\* The document as the callers build it (batch_process.py 114-121), and a
\* document that already carries a pipeline_steps list.  The value of its
\* key "metadata" is (a reference to) the dict object m.
NewDocument(carries, m) ==
    [content |-> 0, metadata |-> {m}, status |-> NoKey,
     pipeline_steps |-> IF carries THEN "caller_list" ELSE NoKey]

\* for-loop head (line 36) after iteration n: the next step function is
\* called (lines 41-44), or line 75 returns.
NextPc(n) == IF n < Len(steps) THEN "in_step" ELSE "returned"

\* (a loop that walks self.steps from its end)
ReversedOrder(n) == Len(steps) + 1 - n

\* line 36: the n-th iteration of `for ... in self.steps` takes the n-th item.
IterationOrder(n) == n

NextCalls(c, n) == IF n < Len(steps) THEN Append(c, IterationOrder(n + 1)) ELSE c

\* lines 33-34, up to the call of the first step, for a document whose
\* metadata is the object m; objs are the nested objects at the call.  The
\* caller that hands over the next document has let go of the metrics
\* mapping it held.
RunOn(t, m, objs) ==
    /\ FreeWorker(t)
    /\ files > 0
    /\ objects' = objs
    /\ \E carries \in BOOLEAN :
         LET doc == NewDocument(carries, m)
             h1 == [EmptyHeap EXCEPT !["document"] = doc,
                                     !["copy"] = DictCopy(doc)]
             h2 == [h1 EXCEPT ![CopiedDoc].pipeline_steps = "run_list"]
         IN /\ dicts' = [dicts EXCEPT ![t] = h2]
            /\ lists' = [lists EXCEPT ![t] =
                           [caller_list |-> IF carries THEN <<StaleEntry>> ELSE <<>>,
                            run_list |-> <<>>]]
            /\ given' = [given EXCEPT ![t] = doc]
    /\ current_doc' = [current_doc EXCEPT ![t] = CopiedDoc]
    /\ step_no' = [step_no EXCEPT ![t] = 1]
    /\ pc' = [pc EXCEPT ![t] = NextPc(0)]
    /\ calls' = [calls EXCEPT ![t] = NextCalls(<<>>, 0)]
    /\ files' = files - 1
    /\ returned' = NoMapping
    /\ previous' = NoMapping
    /\ UNCHANGED <<componentVars, steps, metrics, max_workers, duration, reg, exc,
                   attempts, frame, result>>

\* run() called by process_document on the document it has just built
\* (batch_process.py 114-125, main.py 69-80): its metadata is a new, empty dict.
Run(t) == RunOn(t, t, [objects EXCEPT ![t] = 0])

\* run() called on a record object that other calls are given too.
RunSame(t) == RunOn(t, 0, objects)

\* step_name and step_function of the current iteration
StepName(t) == steps[IterationOrder(step_no[t])].name

\* (a handler that re-raises whatever the step)
AlwaysCritical(t) == TRUE

\* (a handler that never re-raises)
NeverCritical(t) == FALSE

\* line 72: getattr(step_function, "critical", False)
IsCritical(t) == steps[IterationOrder(step_no[t])].critical

\* (an assignment of a one-entry list in place of the append)
Replaced(trail, entry) == <<entry>>

\* lines 52 and 65: list.append
Appended(trail, entry) == Append(trail, entry)

\* What a step function hands back: the dict it was given (untouched or
\* written in place), a new dict with the items of the old one, a new dict
\* with items of its own, or no dict at all.
ReturnKinds == {"same", "same_written", "new", "bare", "none"}

\* The heap and the returned reference after a step returned in manner k.
StepResult(h, cur, k) ==
    CASE k = "same"         -> [heap |-> h, ref |-> cur]
      [] k = "same_written" -> [heap |-> [h EXCEPT ![cur].content = 1], ref |-> cur]
      [] k = "new"          -> [heap |-> [h EXCEPT !["fresh"] =
                                            [h[cur] EXCEPT !.content = 1]],
                                ref |-> "fresh"]
      [] k = "bare"         -> [heap |-> [h EXCEPT !["fresh"] =
                                            [content |-> 1, metadata |-> {},
                                             status |-> NoKey,
                                             pipeline_steps |-> NoKey]],
                                ref |-> "fresh"]
      [] k = "none"         -> [heap |-> h, ref |-> None]

\* line 44 returns and is assigned; line 47 computes the duration
StepReturns(t) ==
    /\ pc[t] = "in_step"
    /\ \E k \in ReturnKinds, d \in Durations :
         LET r == StepResult(dicts[t], current_doc[t], k)
         IN /\ dicts' = [dicts EXCEPT ![t] = r.heap]
            /\ current_doc' = [current_doc EXCEPT ![t] = r.ref]
            /\ duration' = [duration EXCEPT ![t] = d]
            /\ attempts' = [attempts EXCEPT ![StepName(t)].ok = @ + 1,
                                            ![StepName(t)].oktime = @ + d]
    /\ pc' = [pc EXCEPT ![t] = "success_load"]
    /\ UNCHANGED <<componentVars, objects, steps, metrics, max_workers, lists, step_no, reg, exc,
                   calls, given, files,
                   frame, result, returned, previous>>

\* line 44 raises (possibly after writing to the dict in place); control
\* passes to the handler at line 60
StepRaises(t) ==
    /\ pc[t] = "in_step"
    /\ \E written \in BOOLEAN :
         dicts' = [dicts EXCEPT ![t] =
                     IF written THEN [@ EXCEPT ![current_doc[t]].content = 1]
                     ELSE @]
    /\ exc' = [exc EXCEPT ![t] = "step"]
    /\ attempts' = [attempts EXCEPT ![StepName(t)].failed = @ + 1]
    /\ pc' = [pc EXCEPT ![t] = "error_load"]
    /\ UNCHANGED <<componentVars, objects, steps, metrics, max_workers, lists, current_doc, step_no,
                   duration, reg, calls, given, files,
                   frame, result, returned, previous>>

\* The step being executed by thread t writes an item into the nested dict
\* of the record it was given (document["metadata"][k] = v), in place.  The
\* copy of line 33 is shallow: the "metadata" of current_doc is the very
\* dict object the "metadata" of the caller's document is.
WriteNested(t) ==
    /\ pc[t] = "in_step"
    /\ \E m \in dicts[t][current_doc[t]].metadata :
         /\ objects[m] # t
         /\ objects' = [objects EXCEPT ![m] = t]
    /\ UNCHANGED <<componentVars, steps, metrics, max_workers, runVars, readVars,
                   previous>>

\* `self.metrics[name][key] += x` is a load, an add and a store.
Load(t, key, next) ==
    /\ reg' = [reg EXCEPT ![t] = metrics[StepName(t)][key]]
    /\ pc' = [pc EXCEPT ![t] = next]
    /\ UNCHANGED <<componentVars, objects, steps, metrics, max_workers, dicts, lists, current_doc,
                   step_no, duration, exc, calls, given, files, attempts,
                   frame, result, returned, previous>>

Store(t, key, x, next) ==
    /\ metrics' = [metrics EXCEPT ![StepName(t)][key] = reg[t] + x]
    /\ pc' = [pc EXCEPT ![t] = next]
    /\ previous' = NoMapping
    /\ UNCHANGED <<componentVars, objects, steps, max_workers, dicts, lists, current_doc, step_no,
                   duration, reg, exc, calls, given, files, attempts,
                   frame, result, returned>>

\* line 48
SuccessLoad(t) == pc[t] = "success_load" /\ Load(t, "success", "success_store")
SuccessStore(t) == pc[t] = "success_store" /\ Store(t, "success", 1, "time_load")
\* line 49
TimeLoad(t) == pc[t] = "time_load" /\ Load(t, "time", "time_store")
TimeStore(t) == pc[t] = "time_store" /\ Store(t, "time", duration[t], "record_success")
\* line 62
ErrorLoad(t) == pc[t] = "error_load" /\ Load(t, "error", "error_store")
ErrorStore(t) == pc[t] = "error_store" /\ Store(t, "error", 1, "record_error")

\* current_doc["pipeline_steps"] evaluates (no KeyError, no TypeError)
HasTrail(t) ==
    /\ current_doc[t] # None
    /\ dicts[t][current_doc[t]].pipeline_steps # NoKey

TrailRef(t) == dicts[t][current_doc[t]].pipeline_steps

SuccessEntry(t) == [step |-> StepName(t), status |-> "success", duration |-> duration[t]]
ErrorEntry(t) == [step |-> StepName(t), status |-> "error", error |-> exc[t]]

\* lines 52-56; a failing subscript raises inside the try block
RecordSuccess(t) ==
    /\ pc[t] = "record_success"
    /\ IF HasTrail(t)
       THEN /\ lists' = [lists EXCEPT ![t][TrailRef(t)] = Appended(@, SuccessEntry(t))]
            /\ pc' = [pc EXCEPT ![t] = NextPc(step_no[t])]
            /\ calls' = [calls EXCEPT ![t] = NextCalls(@, step_no[t])]
            /\ step_no' = [step_no EXCEPT ![t] = @ + 1]
            /\ exc' = exc
       ELSE /\ exc' = [exc EXCEPT ![t] = "subscript"]
            /\ pc' = [pc EXCEPT ![t] = "error_load"]
            /\ UNCHANGED <<lists, step_no, calls>>
    /\ UNCHANGED <<componentVars, objects, steps, metrics, max_workers, dicts, current_doc, duration,
                   reg, given, files, attempts,
                   frame, result, returned, previous>>

\* (a handler that goes on with the document run() was called with)
Restarted(t) == "document"

\* lines 60-73: the handler assigns nothing to current_doc, the loop goes on
\* with the object it was bound to when the step was called.
Resumed(t) == current_doc[t]

\* lines 65-73; a failing subscript raises out of the handler, hence out of run
RecordError(t) ==
    /\ pc[t] = "record_error"
    /\ current_doc' = [current_doc EXCEPT ![t] = Resumed(t)]
    /\ IF HasTrail(t)
       THEN /\ lists' = [lists EXCEPT ![t][TrailRef(t)] = Appended(@, ErrorEntry(t))]
            /\ IF IsCritical(t)
               THEN /\ pc' = [pc EXCEPT ![t] = "raised"]
                    /\ UNCHANGED <<step_no, exc, calls>>
               ELSE /\ pc' = [pc EXCEPT ![t] = NextPc(step_no[t])]
                    /\ calls' = [calls EXCEPT ![t] = NextCalls(@, step_no[t])]
                    /\ step_no' = [step_no EXCEPT ![t] = @ + 1]
                    /\ exc' = [exc EXCEPT ![t] = "none"]
       ELSE /\ exc' = [exc EXCEPT ![t] = "subscript"]
            /\ pc' = [pc EXCEPT ![t] = "raised"]
            /\ UNCHANGED <<lists, step_no, calls>>
    /\ UNCHANGED <<componentVars, objects, steps, metrics, max_workers, dicts, duration,
                   reg, given, files, attempts,
                   frame, result, returned, previous>>

\* (a caller that gives up on a step that does not return)
Abandoned == {"returned", "raised", "hung"}

\* run() is over at line 75 (return current_doc) or at a raise of lines
\* 60-73; nothing else takes control out of the call of line 44.
RunOver == {"returned", "raised"}

\* The caller of run() takes the returned record or the exception, and the
\* worker is free again.
Collect(t) ==
    /\ pc[t] \in RunOver
    /\ pc' = [pc EXCEPT ![t] = "idle"]
    /\ dicts' = [dicts EXCEPT ![t] = EmptyHeap]
    /\ lists' = [lists EXCEPT ![t] = [l \in ListRefs |-> <<>>]]
    /\ current_doc' = [current_doc EXCEPT ![t] = None]
    /\ step_no' = [step_no EXCEPT ![t] = 0]
    /\ duration' = [duration EXCEPT ![t] = 0]
    /\ reg' = [reg EXCEPT ![t] = 0]
    /\ exc' = [exc EXCEPT ![t] = "none"]
    /\ calls' = [calls EXCEPT ![t] = <<>>]
    /\ given' = [given EXCEPT ![t] = Unallocated]
    /\ UNCHANGED <<componentVars, objects, steps, metrics, max_workers, files, attempts,
                   frame, result, returned, previous>>

\* ------------------------------------------------------------- process_document
\* What process_document hands back: the status of the record it returns
\* (NoKey when it raises instead), how the run() call it made ended, and the
\* file it has written.
Handed(st, how, file) == [status |-> st, run |-> how, artifact |-> file]

\* batch_process.py 82-109: the path does not exist, is not a file, or its
\* size cannot be read: an error record is returned, run() is not called and
\* nothing is written.
PreCheckFails(t) ==
    /\ FreeWorker(t)
    /\ files > 0
    /\ files' = files - 1
    /\ out' = [out EXCEPT ![t] = Handed("error", "not_run", "none")]
    /\ UNCHANGED <<classifyVars, extractVars, callerVars, steps, metrics, max_workers, pc, dicts, lists, current_doc,
                   step_no, duration, reg, exc, calls, given, attempts,
                   frame, result, returned, previous, objects>>

\* The worker is free again: the locals of its call are gone.
Released(t) ==
    /\ pc' = [pc EXCEPT ![t] = "idle"]
    /\ dicts' = [dicts EXCEPT ![t] = EmptyHeap]
    /\ lists' = [lists EXCEPT ![t] = [l \in ListRefs |-> <<>>]]
    /\ current_doc' = [current_doc EXCEPT ![t] = None]
    /\ step_no' = [step_no EXCEPT ![t] = 0]
    /\ duration' = [duration EXCEPT ![t] = 0]
    /\ reg' = [reg EXCEPT ![t] = 0]
    /\ exc' = [exc EXCEPT ![t] = "none"]
    /\ calls' = [calls EXCEPT ![t] = <<>>]
    /\ given' = [given EXCEPT ![t] = Unallocated]

\* batch_process.py 141-158, entered with how the run() call ended: the
\* caller's document gets status "error" and is written to the failed
\* directory; when that write raises, process_document raises.
Failed(t, how) ==
    LET document == [dicts[t]["document"] EXCEPT !.status = "error"]
    IN \E written \in BOOLEAN :
          out' = [out EXCEPT ![t] =
                    IF written THEN Handed(document.status, how, "error")
                    ELSE Handed(NoKey, how, "none")]

\* batch_process.py 125-139: run() returned: the returned record gets status
\* "processed" and is written to the processed directory; when mkdir, open
\* or json.dump raises, control passes to the handler of line 141.
Processed(t) ==
    LET processed_doc == [dicts[t][current_doc[t]] EXCEPT !.status = "processed"]
    IN \/ out' = [out EXCEPT ![t] = Handed(processed_doc.status, "returned", "result")]
       \/ Failed(t, "returned")

\* batch_process.py 125-158: process_document from the end of run() on.
Finish(t) ==
    /\ pc[t] \in {"returned", "raised"}
    /\ IF pc[t] = "returned" THEN Processed(t) ELSE Failed(t, "raised")
    /\ Released(t)
    /\ UNCHANGED <<classifyVars, extractVars, callerVars, steps, metrics, max_workers, files, attempts,
                   frame, result, returned, previous, objects>>

\* ------------------------------------------------------------- Pipeline.get_metrics
\* The keys of self.metrics in iteration order: a dict keeps its keys in the
\* order of their first insertion (line 21).
RECURSIVE KeysUpTo(_, _)
KeysUpTo(s, k) ==
    IF k = 0 THEN <<>>
    ELSE LET before == KeysUpTo(s, k - 1)
         IN IF \E j \in 1 .. Len(before) : before[j] = s[k].name
            THEN before
            ELSE Append(before, s[k].name)

MetricKeys == KeysUpTo(steps, Len(steps))

\* The bucket `metrics` of the current iteration of line 86.
Bucket == metrics[MetricKeys[frame.k]]

\* Line 86 after k iterations: the next key, or line 98.
LoopAt(k) == IF k < Len(MetricKeys) THEN "total_success" ELSE "return"

\* x / y of two numbers, kept as the pair (x, y).
Quotient(x, y) == <<x, y>>
Zero == <<0, 1>>

\* (result[step_name] = metrics: the entry is the Pipeline's own bucket)
SharedEntryObject == "bucket"

\* The dict object an entry of result is: lines 90-96 build a new dict.
EntryObject == "new_dict"

\* lines 84-86: a caller enters get_metrics
GetMetrics ==
    /\ frame.at = "idle"
    /\ InFlight < max_workers
    /\ frame' = [IdleFrame EXCEPT !.at = LoopAt(0), !.k = 1]
    /\ result' = <<>>
    /\ UNCHANGED <<componentVars, objects, steps, metrics, max_workers, runVars, returned, previous>>

ReaderStep(f) ==
    /\ frame' = f
    /\ UNCHANGED <<componentVars, objects, steps, metrics, max_workers, runVars, result, returned, previous>>

\* line 87: total = metrics["success"] + metrics["error"]
TotalSuccess ==
    /\ frame.at = "total_success"
    /\ ReaderStep([frame EXCEPT !.a = Bucket.success, !.at = "total_error"])

TotalError ==
    /\ frame.at = "total_error"
    /\ ReaderStep([frame EXCEPT !.total = frame.a + Bucket.error, !.at = "avg_test"])

\* line 88: avg_time = time / success if success > 0 else 0
AvgTest ==
    /\ frame.at = "avg_test"
    /\ ReaderStep(IF Bucket.success > 0
                  THEN [frame EXCEPT !.at = "avg_time"]
                  ELSE [frame EXCEPT !.avg_time = Zero, !.at = "entry_success"])

AvgTime ==
    /\ frame.at = "avg_time"
    /\ ReaderStep([frame EXCEPT !.a = Bucket.time, !.at = "avg_success"])

AvgSuccess ==
    /\ frame.at = "avg_success"
    /\ ReaderStep(IF Bucket.success = 0
                  THEN [frame EXCEPT !.at = "zero_division"]
                  ELSE [frame EXCEPT !.avg_time = Quotient(frame.a, Bucket.success),
                                     !.at = "entry_success"])

\* line 92
EntrySuccess ==
    /\ frame.at = "entry_success"
    /\ ReaderStep([frame EXCEPT !.success = Bucket.success, !.at = "entry_error"])

\* line 93
EntryError ==
    /\ frame.at = "entry_error"
    /\ ReaderStep([frame EXCEPT !.error = Bucket.error, !.at = "entry_rate"])

\* lines 90-96: the entry of the key, once its items are evaluated
Entry(f, rate) ==
    [obj |-> EntryObject, total |-> f.total, success |-> f.success,
     error |-> f.error, success_rate |-> rate, avg_time |-> f.avg_time]

\* line 94 and the assignment of line 90, then the loop head
EntryRate ==
    /\ frame.at = "entry_rate"
    /\ LET rate == IF frame.total > 0 THEN Quotient(Bucket.success, frame.total)
                   ELSE Zero
       IN result' = result @@ (MetricKeys[frame.k] :> Entry(frame, rate))
    /\ frame' = [IdleFrame EXCEPT !.at = LoopAt(frame.k), !.k = frame.k + 1]
    /\ UNCHANGED <<componentVars, objects, steps, metrics, max_workers, runVars, returned, previous>>

\* line 98
Return ==
    /\ frame.at = "return"
    /\ returned' = Mapping(result)
    /\ previous' = Mapping(result)
    /\ frame' = IdleFrame
    /\ result' = <<>>
    /\ UNCHANGED <<componentVars, objects, steps, metrics, max_workers, runVars>>

\* What the caller wrote into an entry of the mapping it got.
Scribble == 0 - 1

\* The caller of get_metrics changes an entry of the mapping it was handed;
\* the write lands in the dict object the entry is.
CallerModifies ==
    /\ frame.at = "idle"
    /\ returned.held
    /\ \E n \in DOMAIN returned.map :
         /\ returned.map[n].success # Scribble
         /\ returned' = [returned EXCEPT !.map[n].success = Scribble]
         /\ metrics' = IF returned.map[n].obj = "bucket"
                       THEN [metrics EXCEPT ![n].success = Scribble]
                       ELSE metrics
    /\ UNCHANGED <<componentVars, objects, steps, max_workers, runVars, frame, result, previous>>

Reader ==
    \/ GetMetrics
    \/ TotalSuccess
    \/ TotalError
    \/ AvgTest
    \/ AvgTime
    \/ AvgSuccess
    \/ EntrySuccess
    \/ EntryError
    \/ EntryRate
    \/ Return
    \/ CallerModifies

Runner ==
    \E t \in Threads :
        \/ Run(t)
        \/ StepReturns(t)
        \/ StepRaises(t)
        \/ SuccessLoad(t)
        \/ SuccessStore(t)
        \/ TimeLoad(t)
        \/ TimeStore(t)
        \/ ErrorLoad(t)
        \/ ErrorStore(t)
        \/ RecordSuccess(t)
        \/ RecordError(t)
        \/ Collect(t)

Next == Runner \/ Reader

\* Calls of run() that are all given one record object, with steps that
\* write to its nested values.
RunnerOfOne ==
    \E t \in Threads :
        \/ RunSame(t)
        \/ WriteNested(t)
        \/ StepReturns(t)
        \/ StepRaises(t)
        \/ SuccessLoad(t)
        \/ SuccessStore(t)
        \/ TimeLoad(t)
        \/ TimeStore(t)
        \/ ErrorLoad(t)
        \/ ErrorStore(t)
        \/ RecordSuccess(t)
        \/ RecordError(t)
        \/ Collect(t)

Spec == Init /\ [][Next]_vars

SpecSerial == InitSerial /\ [][Next]_vars

SpecShared == InitShared /\ [][Next]_vars

SpecRecords == InitShared /\ [][RunnerOfOne]_vars

\* batch_process.py: process_document, called for one file after the other.
Caller ==
    \E t \in Threads :
        \/ PreCheckFails(t)
        \/ Run(t)
        \/ StepReturns(t)
        \/ StepRaises(t)
        \/ SuccessLoad(t)
        \/ SuccessStore(t)
        \/ TimeLoad(t)
        \/ TimeStore(t)
        \/ ErrorLoad(t)
        \/ ErrorStore(t)
        \/ RecordSuccess(t)
        \/ RecordError(t)
        \/ Finish(t)

SpecCaller == InitSerial /\ [][Caller]_vars

\* Pipeline(steps) takes any list of (name, function) pairs (lines 12-21):
\* registrations in which the names are free, so that two steps may share one.
\* The names are the first two of the table.
SharedNames == {NameTable[1], NameTable[2]}

Duplicates ==
    { l \in StepLists : \A i \in 1 .. Len(l) : l[i].name \in SharedNames }

\* One document goes through a Pipeline whose steps may share names.
InitDuplicates ==
    /\ \E s \in Duplicates : Constructed(s, 1, 1)
    /\ Components

SpecDuplicates == InitDuplicates /\ [][Next]_vars

\* line 44 with a step function that never returns: the call has no timeout,
\* the thread stays inside it.
StepHangs(t) ==
    /\ pc[t] = "in_step"
    /\ pc' = [pc EXCEPT ![t] = "hung"]
    /\ UNCHANGED <<componentVars, objects, steps, metrics, max_workers, dicts, lists,
                   current_doc, step_no, duration, reg, exc, calls, given, files, attempts,
                   frame, result, returned, previous>>

\* Where a thread is when it is about to execute a statement of run() other
\* than the call of the step function.
Statements ==
    {"success_load", "success_store", "time_load", "time_store",
     "error_load", "error_store", "record_success", "record_error"}

PcValues == Statements \cup {"idle", "in_step", "hung", "returned", "raised"}

\* Thread t, being at one of the places `at`, moves on.  Every action of t
\* whose guard is pc[t] \in at is such a step, each is enabled whenever pc[t]
\* is there, and no other action changes pc[t].
Proceeds(t, at) ==
    /\ pc[t] \in at
    /\ \E v \in PcValues \ {pc[t]} : pc' = [pc EXCEPT ![t] = v]

MayHang == Runner \/ \E t \in Threads : StepHangs(t)

\* How many step functions the runs of one pool call at most, all in all.
MaxCalls == 2

\* The threads of a pool run some documents through one Pipeline: one
\* document through a longer list of steps, or several through a shorter one.
InitHang ==
    /\ \E s \in Registrations(MaxCalls), n \in 1 .. MaxWorkers :
         /\ Len(s) * n <= MaxCalls
         /\ Constructed(s, MaxWorkers, n)
    /\ Components

\* The interpreter goes on running every thread that has a statement to
\* execute, and the call of a step function turns out one way or another;
\* (it returns, raises, or is a call that never returns); nothing makes a
\* caller start or collect a run.
SpecHang ==
    /\ InitHang
    /\ [][MayHang]_vars
    /\ \A t \in Threads : WF_pc(Proceeds(t, Statements)) /\ WF_pc(Proceeds(t, {"in_step"}))

\* ------------------------------------------------------------- Classifier.classify
\* str.lower() on the words and file types of the model.
Lower(w) ==
    CASE w = "INVOICE" -> "invoice"
      [] w = ".PDF" -> ".pdf"
      [] w = "OpenAI" -> "openai"
      [] w = "Subtotal" -> "subtotal"
      [] w = "Tax" -> "tax"
      [] w = "Total" -> "total"
      [] OTHER -> w

RECURSIVE LowerText(_)
LowerText(text) ==
    IF text = <<>> THEN <<>> ELSE <<Lower(Head(text))>> \o LowerText(Tail(text))

\* The word w starts with k / ends with k. Of the vocabulary only "billing"
\* has a keyword inside it other than itself.
StartsWith(w, k) == k = w \/ (k = "bill" /\ w = "billing")
EndsWith(w, k) == k = w

\* `keyword in text`: the phrase p is a substring of the text.
PhraseIn(p, text) ==
    \E i \in 1 .. (Len(text) - Len(p) + 1) :
        IF Len(p) = 1
        THEN StartsWith(text[i], p[1]) \/ EndsWith(text[i], p[1])
        ELSE /\ EndsWith(text[i], p[1])
             /\ StartsWith(text[i + Len(p) - 1], p[Len(p)])
             /\ \A j \in 2 .. (Len(p) - 1) : p[j] = text[i + j - 1]

\* The indicators whose last character is no word character.
EndInPunctuation ==
    {"from:", "to:", "subject:", "sent:", "cc:", "bcc:", "date:", "fig.", "al."}

\* The `\b` after the indicator, at the end of a word of the text (a blank
\* or the end of the text follows): it matches between a word character and
\* what follows, and not after a punctuation character.
BoundaryAfter(k) == k \notin EndInPunctuation

\* `\bindicator\b` found in the text: the phrase p at word boundaries.
WholePhraseIn(p, text) ==
    \E i \in 1 .. (Len(text) - Len(p) + 1) :
        /\ \A j \in 1 .. Len(p) : p[j] = text[i + j - 1]
        /\ BoundaryAfter(p[Len(p)])

\* Python's `x or y` on labels.
LeftOnly(x, y) == x
Either(x, y) == IF x = None \/ x = "" THEN y ELSE x

\* Python's truth value of document.get("content", "").
Truthy(content) == ~content.none /\ content.text # <<>>

\* _classify_by_extension
ClassifyByExtension(file_type) ==
    LET ft == Lower(file_type)
    IN  CASE ft = ".pdf" -> "pdf_document"
          [] ft \in {".jpg", ".jpeg", ".png", ".tiff", ".bmp"} -> "image_document"
          [] ft \in {".doc", ".docx"} -> "word_document"
          [] ft \in {".xls", ".xlsx"} -> "spreadsheet"
          [] OTHER -> "unknown_document"

\* sum(1 for keyword in keywords if keyword.lower() in text)
KeywordScore(kws, text) ==
    Cardinality({i \in DOMAIN kws : PhraseIn(LowerText(kws[i]), text)})

\* The loop that fills scores, type by type.
RECURSIVE KeywordScores(_, _)
KeywordScores(table, text) ==
    IF table = <<>> THEN <<>>
    ELSE <<KeywordScore(Head(table).keywords, text)>> \o KeywordScores(Tail(table), text)

\* max(scores.values()) if scores else 0
MaxScore(scores) ==
    IF DOMAIN scores = {} THEN 0
    ELSE CHOOSE m \in {scores[c] : c \in DOMAIN scores} :
             \A c \in DOMAIN scores : scores[c] <= m

\* max_types[0]
LastOf(max_types) == max_types[Len(max_types)]
Chosen(max_types) == max_types[1]

\* _rule_based_classification
RuleBasedClassification(table, content_text) ==
    LET text == LowerText(content_text)
        scores == KeywordScores(table, text)
        max_score == MaxScore(scores)
        max_types == SelectSeq([c \in DOMAIN table |-> c],
                               LAMBDA c : scores[c] = max_score)
    IN  IF max_score > 0 THEN table[Chosen(max_types)].doc_type ELSE None

\* classify: the value it stores in document["doc_type"].
DocType(table, file_type, content) ==
    LET doc_type == ClassifyByExtension(file_type)
    IN  IF Truthy(content)
        THEN Either(RuleBasedClassification(table, content.text), doc_type)
        ELSE doc_type

\* The table of a classifier after a call: the methods only read it.
TableShrunk(table) == IF Len(table) > 1 THEN Tail(table) ELSE table
TableAfter(table) == table

\* The history after a call on the probe that returned r.
Recorded(h, r) ==
    [first |-> IF h.count = 0 THEN r ELSE h.first,
     last |-> r,
     count |-> IF h.count < 2 THEN h.count + 1 ELSE h.count,
     between |-> h.between]

ClassifiedAs(d, table) ==
    [file_type |-> d.file_type, content |-> d.content,
     doc_type |-> DocType(table, d.file_type, d.content)]

\* classifier.classify(document) on the probe; the history follows two calls.
Classify ==
    /\ seen.count < 2
    /\ cdoc' = ClassifiedAs(probe, keywords)
    /\ seen' = Recorded(seen, cdoc'.doc_type)
    /\ keywords' = TableAfter(keywords)
    /\ UNCHANGED <<document_classes, probe, zs, pipelineVars, extractVars>>

\* classifier.classify(document) on another document.
ClassifyOther ==
    /\ \E d \in OtherDocuments : cdoc' = ClassifiedAs(d, keywords)
    /\ seen' = [seen EXCEPT !.between = @ \/ seen.count = 1]
    /\ keywords' = TableAfter(keywords)
    /\ UNCHANGED <<document_classes, probe, zs, pipelineVars, extractVars>>

\* ------------------------------------------------ ZeroShotDocumentClassifier.classify
\* (match_count / len(indicators)) * weight, as numerator and denominator.
ClassScore(c, text) ==
    <<Cardinality({i \in DOMAIN c.indicators :
                      WholePhraseIn(LowerText(c.indicators[i]), text)}) * c.weight,
      Len(c.indicators) * 10>>

Less(x, y) == x[1] * y[2] < y[1] * x[2]

\* max(scores.items(), key=lambda x: x[1]) over the first k classes: the
\* first of the maximal ones.
RECURSIVE BestOf(_, _)
BestOf(scores, k) ==
    IF k = 1 THEN 1
    ELSE LET b == BestOf(scores, k - 1)
         IN  IF Less(scores[b], scores[k]) THEN k ELSE b

\* The loop that fills scores, class by class.
RECURSIVE ClassScores(_, _)
ClassScores(classes, text) ==
    IF classes = <<>> THEN <<>>
    ELSE <<ClassScore(Head(classes), text)>> \o ClassScores(Tail(classes), text)

\* min(best_class[1], 1.0)
AtMostOne(x) == IF x[1] > x[2] THEN <<1, 1>> ELSE x

\* classify(text): its result. A text of None raises at text.lower() and
\* is answered by the except branch.
ZeroShotResult(classes, content) ==
    IF content.none THEN [class |-> "unknown", confidence |-> <<0, 1>>]
    ELSE LET text == LowerText(content.text)
             scores == ClassScores(classes, text)
         IN  IF Len(classes) = 0 THEN [class |-> "unknown", confidence |-> <<1, 10>>]
             ELSE LET best == BestOf(scores, Len(classes))
                      confidence == AtMostOne(scores[best])
                  IN  IF confidence[1] > 0
                      THEN [class |-> classes[best].class, confidence |-> confidence]
                      ELSE [class |-> "unknown", confidence |-> <<1, 10>>]

\* zero_shot.classify(text) on the text of the probe; the history follows
\* two calls.
ZeroShotClassify ==
    /\ zs.count < 2
    /\ zs' = Recorded(zs, ZeroShotResult(document_classes, probe.content))
    /\ document_classes' = TableAfter(document_classes)
    /\ UNCHANGED <<keywords, probe, cdoc, seen, pipelineVars, extractVars>>

\* The classifiers, asked about any document of the bounded input space.
InitClassify ==
    /\ Constructed(<<>>, 1, 0)
    /\ \E f \in FileTypes, c \in Contents : Classifiers([file_type |-> f, content |-> c])
    /\ Unbuilt(DefaultConfig, Request("", NoContent, <<>>))
    /\ Uncalled

Classification == Classify \/ ClassifyOther \/ ZeroShotClassify

SpecClassify == InitClassify /\ [][Classification]_vars

\* ------------------------------------------------------------- LLMClient
Supported(provider) == provider \in {"openai", "anthropic"}

\* LLMClient.__init__(provider, api_key, model): the provider is compared
\* as given, the attribute holds it in lower case.
LLMClientInit(c) ==
    IF (~c.api_key /\ ~Supported(c.provider)) \/ (~c.model /\ ~Supported(c.provider))
    THEN [built |-> "raised", provider |-> Lower(c.provider), api_key |-> FALSE]
    ELSE [built |-> "ok", provider |-> Lower(c.provider),
          api_key |-> c.api_key \/ c.env_key]

\* Extractor.__init__: self.llm_client = LLMClient(...)
NewExtractor ==
    /\ llm_client.built = "no"
    /\ llm_client' = LLMClientInit(config)
    /\ UNCHANGED <<config, vector_store, extraction, stored, pipelineVars, classifyVars>>

\* What the API call does: it raises, or its content is the JSON text null,
\* {}, an object with the fields of the schema, or an array.
Replies == {"raises", "null", "empty", "object", "array"}

\* json.loads(content)
Parsed(reply, schema) ==
    CASE reply = "empty" -> EmptyMapping
      [] reply = "object" -> MappingOf([f \in DOMAIN schema |-> NullValue])
      [] OTHER -> NonMapping(reply)

\* _call_openai, _call_anthropic: json.loads of the content, {} on an exception.
CallProvider(reply, schema) ==
    IF reply = "raises" THEN EmptyMapping ELSE Parsed(reply, schema)

\* extract_from_text(text, schema)
ExtractFromText(client, reply, schema) ==
    IF ~client.api_key THEN EmptyMapping
    ELSE IF Supported(client.provider) THEN CallProvider(reply, schema)
    ELSE EmptyMapping

\* ------------------------------------------------------------- Extractor.extract_data
\* _extract_with_llm(text, doc_type)
ExtractWithLLM(client, doc_type, reply) ==
    IF doc_type \notin DOMAIN ExtractorSchemas THEN EmptyMapping
    ELSE ExtractFromText(client, reply, ExtractorSchemas[doc_type])

\* Python's truth value of the value _extract_with_llm returned.
TruthOf(data) ==
    CASE data.kind = "mapping" -> DOMAIN data.fields # {}
      [] data.kind = "array" -> TRUE
      [] OTHER -> FALSE

\* The numeric fields whose pattern finds a match in the text: "total" is
\* also found inside "Subtotal" (re.IGNORECASE), and no pattern reaches a
\* number across a currency symbol ([^0-9$...]*).
MatchedFields(text) ==
    IF text.label \notin Labels \/ text.symbol \/ text.number = <<>> THEN {}
    ELSE CASE text.label = "Subtotal" -> {"subtotal", "total"}
           [] text.label = "Tax" -> {"tax"}
           [] text.label = "Total" -> {"total"}

\* The number without the commas and points it starts with.
RECURSIVE FromFirstDigit(_)
FromFirstDigit(number) ==
    IF number = <<>> \/ Head(number) \in Digits THEN number
    ELSE FromFirstDigit(Tail(number))

\* match.group(1) of [^0-9$...]*([0-9,.]+): the greedy prefix takes the
\* commas and points before the first digit, and gives the last one back
\* when there is no digit at all.
Capture(number) ==
    IF FromFirstDigit(number) = <<>> THEN <<number[Len(number)]>>
    ELSE FromFirstDigit(number)

\* re.sub(r'[^\d\.]', '', value)
KeptCommas(value) == SelectSeq(value, LAMBDA c : c # "$")
Stripped(value) == SelectSeq(value, LAMBDA c : c \in Digits \cup {"."})

DigitsOf(value) == SelectSeq(value, LAMBDA c : c \in Digits)

\* float(value) succeeds on digits with at most one point among them.
Parses(value) ==
    /\ \A i \in DOMAIN value : value[i] \in Digits \cup {"."}
    /\ DigitsOf(value) # <<>>
    /\ Cardinality({i \in DOMAIN value : value[i] = "."}) <= 1

RECURSIVE Mantissa(_)
Mantissa(digits) ==
    IF digits = <<>> THEN 0
    ELSE 10 * Mantissa(SubSeq(digits, 1, Len(digits) - 1))
             + (IF digits[Len(digits)] = "1" THEN 1 ELSE 5)

\* float(value): all the digits, and how many of them follow the point.
ParseFloat(value) ==
    <<Mantissa(DigitsOf(value)),
      IF \E i \in DOMAIN value : value[i] = "."
      THEN Len(value) - (CHOOSE i \in DOMAIN value : value[i] = ".")
      ELSE 0>>

\* extractor.py 195-201: the value stored for a numeric field.
Coerced(group) ==
    LET value == Stripped(group)
    IN  IF Parses(value) THEN Float(ParseFloat(value)) ELSE Str(value)

\* extractor.py 156-176: result as initialised.
InvoiceResult ==
    [invoice_number |-> NullValue, date |-> NullValue, due_date |-> NullValue,
     vendor |-> Dict(4), customer |-> Dict(3), line_items |-> List(0),
     subtotal |-> NullValue, tax |-> NullValue, total |-> NullValue,
     payment_terms |-> NullValue]

\* _rule_based_invoice_extraction(text)
RuleBasedInvoiceExtraction(text) ==
    MappingOf([f \in DOMAIN InvoiceResult |->
                  IF f \in MatchedFields(text) THEN Coerced(Capture(text.number))
                  ELSE InvoiceResult[f]])

\* _generic_rule_based_extraction(text): the key and the value kv_pattern finds.
GenericRuleBasedExtraction(text) ==
    IF text.label = "hello world" THEN MappingOf([f \in {"hello"} |-> Str(<<"world">>)])
    ELSE IF text.number = <<>> THEN EmptyMapping
    ELSE MappingOf([f \in {Lower(text.label)} |->
                       Str((IF text.symbol THEN <<"$">> ELSE <<>>) \o text.number)])

\* The fallback of extract_data (lines 99-107).
RuleBased(doc_type, text) ==
    CASE doc_type = "invoice" -> RuleBasedInvoiceExtraction(text)
      [] doc_type = "receipt" -> EmptyMapping
      [] OTHER -> GenericRuleBasedExtraction(text)

\* The call of the API is reached.
Called(client, doc_type, content) ==
    /\ content.kind = "text"
    /\ doc_type \in DOMAIN ExtractorSchemas
    /\ client.api_key
    /\ Supported(client.provider)

\* response_format json_object makes the content of OpenAI an object.
RepliesOf(client, doc_type, content) ==
    IF ~Called(client, doc_type, content) THEN {"none"}
    ELSE IF client.provider = "openai" THEN {"raises", "empty", "object"}
    ELSE Replies

\* extract_data(document): the call and the extracted_data it stores.
Extracted(client, doc_type, content, reply) ==
    LET llm == ExtractWithLLM(client, doc_type, reply)
        fallback == content.kind = "text" /\ ~TruthOf(llm)
    IN  [engine |-> "extractor", doc_type |-> doc_type, content |-> content,
         schema |-> <<>>, reply |-> reply,
         mode |-> IF content.kind # "text" THEN "no_content"
                  ELSE IF fallback THEN "fallback" ELSE "llm",
         captured |-> [f \in (IF fallback /\ doc_type = "invoice"
                              THEN MatchedFields(content) ELSE {}) |->
                          Capture(content.number)],
         extracted_data |-> IF content.kind # "text" THEN EmptyMapping
                            ELSE IF fallback THEN RuleBased(doc_type, content)
                            ELSE llm]

\* extractor.extract_data(document) on the document of the request.
ExtractData ==
    /\ llm_client.built = "ok"
    /\ extraction.schema = <<>>
    /\ \E reply \in RepliesOf(llm_client, extraction.doc_type, extraction.content) :
           extraction' = Extracted(llm_client, extraction.doc_type, extraction.content, reply)
    /\ UNCHANGED <<config, llm_client, vector_store, stored, pipelineVars, classifyVars>>

\* ------------------------------------------------------------- RAGEngine.extract_data
\* The type-appropriate zero value of _create_empty_schema_result.
ZeroValue(type) ==
    CASE type = "string" -> Str(<<>>)
      [] type = "number" -> Float(<<0, 0>>)
      [] type = "integer" -> IntValue(0)
      [] type = "array" -> List(0)
      [] type = "object" -> Dict(0)
      [] OTHER -> NullValue

NamesOf(schema) == {schema[i].name : i \in DOMAIN schema}
FieldNamed(schema, name) == schema[CHOOSE i \in DOMAIN schema : schema[i].name = name]

\* _create_empty_schema_result(schema)
CreateEmptySchemaResult(schema) ==
    [f \in NamesOf(schema) |->
        LET info == FieldNamed(schema, f)
        IN  IF info.has_default THEN info.default ELSE ZeroValue(info.type)]

\* str(value)
StrOf(value) ==
    CASE value.type = "str" -> value
      [] value.type = "null" -> Str(<<"None">>)
      [] value.type = "list" -> Str(<<"[]">>)
      [] OTHER -> Str(<<"1", ".", "5">>)

\* int(float(...)) of a string left by the stripping, 0 when it fails.
IntOf(value) ==
    LET text == Stripped(value.str)
    IN  IF Parses(text) THEN IntValue(Mantissa(SubSeq(DigitsOf(text), 1,
                                 Len(DigitsOf(text)) - ParseFloat(text)[2])))
        ELSE IntValue(0)

\* _validate_against_schema: the value stored for a field of the type that
\* the data holds the value for.
Checked(value, type) ==
    CASE type = "string" /\ value.type # "str" -> StrOf(value)
      [] type = "number" /\ value.type \notin {"int", "float"} ->
            IF value.type = "str" /\ Parses(Stripped(value.str))
            THEN Float(ParseFloat(Stripped(value.str)))
            ELSE Float(<<0, 0>>)
      [] type = "integer" /\ value.type # "int" ->
            IF value.type \in {"str", "float"} THEN IntOf(StrOf(value)) ELSE IntValue(0)
      [] type = "array" /\ value.type # "list" ->
            IF value.type = "str"
            THEN List(1 + Cardinality({i \in DOMAIN value.str : value.str[i] = ","}))
            ELSE List(0)
      [] type = "object" /\ value.type # "dict" -> Dict(0)
      [] OTHER -> value

\* _validate_against_schema(data, schema), data a mapping
ValidateAgainstSchema(data, schema) ==
    [f \in {n \in NamesOf(schema) : n \in DOMAIN data \/ FieldNamed(schema, n).has_default} |->
        LET info == FieldNamed(schema, f)
        IN  IF f \in DOMAIN data THEN Checked(data[f], info.type) ELSE info.default]

\* The values the model gives a field in its answer.
ReplyValues ==
    {NullValue, Str(<<"1", ",", "5">>), Str(<<"n/a">>), Float(<<15, 1>>), List(0), Dict(0)}

\* What the chat completion does: the API call raises, the content is no
\* JSON even after _fix_json, it is a JSON array, or it is an object that
\* gives every field of the schema the value v.
RagReplies == {"raises", "unparsable", "array"}

RagResult(schema, reply, v) ==
    CASE reply = "raises" -> CreateEmptySchemaResult(schema)
      [] reply = "unparsable" ->
            ValidateAgainstSchema(CreateEmptySchemaResult(schema), schema)
      [] reply = "array" ->
            ValidateAgainstSchema([f \in {} |-> NullValue], schema)
      [] OTHER ->
            ValidateAgainstSchema([f \in NamesOf(schema) |-> v], schema)

\* RAGEngine.extract_data(text, doc_class, schema); the caller stores the
\* result as extracted_data.
RagExtract ==
    /\ extraction.schema # <<>>
    /\ \E reply \in RagReplies \cup {"object"}, v \in ReplyValues :
           /\ reply # "object" => v = NullValue
           /\ extraction' =
                  [engine |-> "rag", doc_type |-> extraction.doc_type,
                   content |-> extraction.content,
                   schema |-> extraction.schema, reply |-> reply,
                   mode |-> IF reply \in {"raises", "unparsable"} THEN "filled"
                            ELSE "validated",
                   captured |-> [f \in {} |-> <<>>],
                   extracted_data |-> MappingOf(RagResult(extraction.schema, reply, v))]
    /\ UNCHANGED <<config, llm_client, vector_store, stored, pipelineVars, classifyVars>>

\* ------------------------------------------------------------- VectorStore
\* self.db_url[10:]
PathOf(db_url) ==
    CASE db_url = "sqlite:///documents.db" -> "documents.db"
      [] db_url = "sqlite:///" -> ""

\* VectorStore.__init__(db_url); _init_sqlite_db logs its errors.
VectorStoreInit(db_url) ==
    LET url == IF db_url = None THEN "sqlite:///documents.db" ELSE db_url
    IN  [built |-> "ok",
         db_path |-> IF url \in {"sqlite:///documents.db", "sqlite:///"}
                     THEN PathOf(url) ELSE None]

NewVectorStore ==
    /\ vector_store.built = "no"
    /\ vector_store' = VectorStoreInit(config.db_url)
    /\ UNCHANGED <<config, llm_client, extraction, stored, pipelineVars, classifyVars>>

\* store_document(document): skipped without a db_path, else the insert
\* succeeds or fails and document["storage"]["status"] says which.
StoreDocument ==
    /\ vector_store.built = "ok"
    /\ IF vector_store.db_path \in {None, ""}
       THEN stored' = "skipped"
       ELSE \E status \in {"stored", "error"} : stored' = status
    /\ UNCHANGED <<config, llm_client, vector_store, extraction, pipelineVars, classifyVars>>

\* The extractor with or without an API key, asked for any extraction of
\* the bounded input space.
InitExtract ==
    /\ Constructed(<<>>, 1, 0)
    /\ Classifiers([file_type |-> "", content |-> [none |-> TRUE, text |-> <<>>]])
    /\ \E c \in Configs, r \in Requests :
           /\ c.provider \in {"openai", "anthropic"}
           /\ ~c.env_key /\ ~c.model /\ c.db_url = None
           /\ Unbuilt(c, r)
    /\ Uncalled

ExtractionStep == NewExtractor \/ ExtractData \/ RagExtract

SpecExtract == InitExtract /\ [][ExtractionStep]_vars

\* The components constructed with any arguments, and asked to extract
\* from the invoice that reads 'hello world'.
InitConfig ==
    /\ Constructed(<<>>, 1, 0)
    /\ Classifiers([file_type |-> "", content |-> [none |-> TRUE, text |-> <<>>]])
    /\ \E c \in Configs : Unbuilt(c, Request("invoice", HelloWorld, <<>>))
    /\ Uncalled

Construction == NewExtractor \/ NewVectorStore \/ ExtractData \/ StoreDocument

SpecConfig == InitConfig /\ [][Construction]_vars

\* ------------------------------------------------------------- DocumentProcessor (main.py)
\* main.py 45-52: the six steps, bound methods without a `critical` attribute.
Registered ==
    << [name |-> "preprocess", critical |-> FALSE], [name |-> "ocr", critical |-> FALSE],
       [name |-> "classify", critical |-> FALSE], [name |-> "extract", critical |-> FALSE],
       [name |-> "store", critical |-> FALSE], [name |-> "index", critical |-> FALSE] >>

\* The two implementations of the ocr, classify and extract steps in the
\* repository: src/preprocessing, src/classification, src/extraction ("stub")
\* and the ones of modern-doc-processor ("modern").
Builds == {"stub", "modern"}

\* What the name of the file contains, and its suffix.
FileNames == {"invoice", "receipt", "notes"}
Suffixes == {".pdf", ".jpg", ".txt"}

\* The texts an OCR run yields: nothing, and texts of the vocabulary.
OcrTexts == {<<>>, <<"invoice", "number">>, <<"dear">>}

\* document["storage"] is absent.
NoStorage ==
    [keys |-> {}, status |-> NoKey, original_path |-> NoKey, stored_path |-> NoKey,
     category |-> NoKey]

\* main.py 69-76: the document process_document builds; document.copy() and
\* the new pipeline_steps list of run() (pipeline.py 33-34).
BuiltDocument(name, suffix) ==
    [file_path |-> name, file_type |-> suffix,
     content |-> [none |-> TRUE, text |-> <<>>],
     doc_type |-> NoKey, extracted_data |-> "absent", ocr_error |-> NoKey,
     storage |-> NoStorage, storage_path |-> NoKey, invoice_data |-> NoKey,
     status |-> NoKey, pipeline_steps |-> <<>>]

\* One iteration of the loop of run() whose step function returned the
\* document d after dur seconds (pipeline.py 44-56), the work of the step
\* having been done or not, with what the step wrote outside the document.
Iterated(d, dur, done, persisted) ==
    LET name == steps[record.at].name
    IN  /\ metrics' = [metrics EXCEPT ![name].success = @ + 1, ![name].time = @ + dur]
        /\ record' = [record EXCEPT
                        !.at = @ + 1,
                        !.document = [d EXCEPT !.pipeline_steps =
                                        Append(@, [step |-> name, status |-> "success",
                                                   duration |-> dur])]]
        /\ work' = Append(work, [step |-> name, done |-> done, persisted |-> persisted])
        /\ UNCHANGED <<steps, max_workers, runVars, readVars, previous, objects, out,
                       classifyVars, extractVars, batch, config_objects>>

AtStep(name) == record.at \in 1 .. Len(steps) /\ steps[record.at].name = name

\* Processor.process (src/preprocessing/processor.py 15-20)
Preprocess ==
    /\ AtStep("preprocess")
    /\ \E dur \in Durations : Iterated(record.document, dur, TRUE, NoKey)

\* OCREngine._mock_ocr / the mock content of the stub: a non-empty text that
\* says "invoice" when the name of the file does.
MockText(name) == IF name = "invoice" THEN <<"invoice", "number">> ELSE <<"mock", "text">>

\* _needs_ocr: images always, a PDF unless text is found in it, others never.
NeedsOcr(suffix, has_text) ==
    (suffix = ".pdf" /\ ~has_text) \/ suffix \in {".jpg", ".jpeg", ".png", ".tiff", ".bmp"}

\* document["content"] = text
WithContent(d, text) == [d EXCEPT !.content = [none |-> FALSE, text |-> text]]

\* OCREngine.extract_text: the stub (src/preprocessing/ocr_engine.py 17-26)
\* and modern-doc-processor/src/preprocessing/ocr_engine.py 56-103.
ExtractText ==
    /\ AtStep("ocr")
    /\ \E dur \in Durations, exists \in BOOLEAN, has_text \in BOOLEAN, raises \in BOOLEAN,
          text \in OcrTexts \cup {MockText(record.document.file_path)} :
         LET d == record.document
         IN  IF ~exists
             THEN Iterated(d, dur, FALSE, NoKey)
             ELSE IF record.build = "stub"
             THEN Iterated(WithContent(d, MockText(d.file_path)), dur, TRUE, NoKey)
             ELSE IF ~NeedsOcr(d.file_type, has_text)
             THEN Iterated(d, dur, TRUE, NoKey)
             ELSE IF raises
             THEN Iterated([d EXCEPT !.ocr_error = "error"], dur, FALSE, NoKey)
             ELSE Iterated(WithContent(d, text), dur, TRUE, NoKey)

\* Classifier.classify of the stub (src/classification/classifier.py 14-34):
\* by the name of the file.
ByFileName(name) == IF name \in {"invoice", "receipt", "contract", "report"} THEN name
                    ELSE "unknown"

\* Classifier.classify: document["doc_type"] = doc_type
ClassifyDocument ==
    /\ AtStep("classify")
    /\ \E dur \in Durations :
         LET d == record.document
             doc_type == IF record.build = "stub" THEN ByFileName(d.file_path)
                         ELSE DocType(keywords, d.file_type, d.content)
         IN  Iterated([d EXCEPT !.doc_type = doc_type], dur, TRUE, NoKey)

\* What extract_data can store for a document: the stub
\* (src/extraction/extractor.py 14-27) returns its mock data for invoices and
\* receipts and {} otherwise; Extractor.extract_data (extractor.py 75-110)
\* stores {} without text, for an invoice the LLM's object or the result of
\* the invoice rules (never empty), and otherwise an object or {}.
ExtractedData(build, d) ==
    IF build = "stub"
    THEN IF d.doc_type \in {"invoice", "receipt"} THEN {"filled"} ELSE {"empty"}
    ELSE IF ~Truthy(d.content) THEN {"empty"}
    ELSE IF d.doc_type = "invoice" THEN {"filled"}
    ELSE {"empty", "filled"}

ExtractFields ==
    /\ AtStep("extract")
    /\ \E dur \in Durations, data \in ExtractedData(record.build, record.document) :
         Iterated([record.document EXCEPT !.extracted_data = data], dur, TRUE, NoKey)

\* DocumentStorage._get_target_directory
TargetDirectory(doc_type, file_type) ==
    CASE doc_type = "invoice" -> "invoices"
      [] doc_type = "receipt" -> "receipts"
      [] doc_type = "contract" -> "contracts"
      [] doc_type = "letter" -> "letters"
      [] doc_type = "form" -> "forms"
      [] doc_type = "report" -> "reports"
      [] OTHER -> CASE file_type = ".pdf" -> "pdf"
                    [] file_type \in {".jpg", ".jpeg", ".png", ".tiff", ".bmp"} -> "images"
                    [] file_type \in {".xls", ".xlsx", ".csv"} -> "spreadsheets"
                    [] OTHER -> "other"

\* The path the file is copied to: base_path / target_dir / new_filename.
TargetPath(target_dir, name) == <<"data/processed", target_dir, name>>

\* document["storage"] as lines 58-61 and 93-96 write it, and as lines 81-87 do.
StorageError ==
    [NoStorage EXCEPT !.keys = {"status", "error"}, !.status = "error"]

StorageInfo(file_path, target_dir) ==
    [keys |-> {"original_path", "stored_path", "category", "timestamp", "status"},
     status |-> "stored", original_path |-> file_path,
     stored_path |-> TargetPath(target_dir, file_path), category |-> target_dir]

\* DocumentStorage.store_document (src/integration/document_storage.py 45-98)
StoreFile ==
    /\ AtStep("store")
    /\ \E dur \in Durations, exists \in BOOLEAN, copied \in BOOLEAN :
         LET d == record.document
             target_dir == TargetDirectory(d.doc_type, d.file_type)
         IN  IF exists /\ copied
             THEN Iterated([d EXCEPT !.storage = StorageInfo(d.file_path, target_dir)],
                           dur, TRUE, TargetPath(target_dir, d.file_path))
             ELSE Iterated([d EXCEPT !.storage = StorageError], dur, FALSE, NoKey)

\* document.get(key, "") for a key whose value is a path
Get(value) == IF value = NoKey THEN <<>> ELSE value

\* document["storage"] as lines 119-123 write it.
IndexInfo ==
    [NoStorage EXCEPT !.keys = {"id", "location", "status"}, !.status = "stored"]

\* (a step that hands the record on without the text it has persisted)
Trimmed(d) == [d EXCEPT !.storage = IndexInfo, !.content = [none |-> TRUE, text |-> <<>>]]

\* lines 119-123: the only key the step writes is "storage".
Indexed(d) == [d EXCEPT !.storage = IndexInfo]

\* VectorStore.store_document (src/integration/vector_store.py 68-134); the
\* row it inserts holds document.get("storage_path", "").
IndexDocument ==
    /\ AtStep("index")
    /\ \E dur \in Durations, inserted \in BOOLEAN :
         LET d == record.document
         IN  IF vector_store.db_path \in {None, ""}
             THEN Iterated(d, dur, FALSE, NoKey)
             ELSE IF inserted
             THEN Iterated(Indexed(d), dur, TRUE, Get(d.storage_path))
             ELSE Iterated([d EXCEPT !.storage = StorageError], dur, FALSE, NoKey)

\* main.py 82-94: run() has returned; an invoice gets invoice_data, and the
\* record is handed back with status "processed".
HandBack ==
    /\ record.at = Len(steps) + 1
    /\ record' = [record EXCEPT
                    !.at = @ + 1,
                    !.document.status = "processed",
                    !.document.invoice_data =
                        IF record.document.doc_type = "invoice" THEN "data" ELSE @]
    /\ UNCHANGED <<steps, metrics, max_workers, runVars, readVars, previous, objects, out,
                   classifyVars, extractVars, work, batch, config_objects>>

\* DocumentProcessor(config_path).process_document(file_path), for either
\* build, every file and every vector_db_url, from the call of run() on.
InitMain ==
    /\ Constructed(Registered, 1, 0)
    /\ \E b \in Builds, name \in FileNames, suffix \in Suffixes, url \in DbUrls :
         /\ record = [at |-> 1, build |-> b, document |-> BuiltDocument(name, suffix)]
         /\ keywords = IF b = "modern" THEN Keywords ELSE <<>>
         /\ config = [DefaultConfig EXCEPT !.db_url = url]
         /\ vector_store = VectorStoreInit(url)
    /\ document_classes = <<>>
    /\ probe = [file_type |-> "", content |-> [none |-> TRUE, text |-> <<>>]]
    /\ cdoc = NoDocument
    /\ seen = NoCalls(NoKey)
    /\ zs = NoCalls(NoClass)
    /\ llm_client = NotBuilt
    /\ extraction = Request("", NoContent, <<>>)
    /\ stored = NoKey
    /\ work = <<>>
    /\ batch = NoBatch
    /\ config_objects = NoConfigs

ProcessDocument ==
    \/ Preprocess
    \/ ExtractText
    \/ ClassifyDocument
    \/ ExtractFields
    \/ StoreFile
    \/ IndexDocument
    \/ HandBack

SpecMain == InitMain /\ [][ProcessDocument]_vars

\* ------------------------------------------------------------- Config
\* config.py 9-46: DEFAULT_CONFIG; of its items the model keeps a scalar one
\* and the nested dict "storage", which is a dict object of its own.
DefaultStorage == [processed_dir |-> "data/processed", failed_dir |-> "data/failed"]

\* An item that refers to the dict object `at` of the heap, and an item that
\* is a plain string.
DictAt(at) == [dict |-> TRUE, at |-> at]

PlainString == [dict |-> FALSE, at |-> 0]

\* Its "storage" is the first dict object of the heap.
DEFAULT_CONFIG == [vector_db_url |-> "sqlite:///documents.db", storage |-> DictAt(1)]

\* The contents of a custom configuration file (json.load, line 54): nothing
\* (no file), a scalar key, a nested key, or "storage" given as a string.
NoFile == [has |-> {}, vector_db_url |-> None, dict |-> FALSE, storage |-> <<>>]

CustomConfigs ==
    {NoFile}
        \cup {[NoFile EXCEPT !.has = {"vector_db_url"}, !.vector_db_url = "postgresql://db"]}
        \cup {[NoFile EXCEPT !.has = {"storage"}, !.dict = TRUE,
                             !.storage = [k \in {key} |-> dir]] :
                 key \in {"processed_dir", "failed_dir"}, dir \in {"out", "tmp"}}
        \cup {[NoFile EXCEPT !.has = {"storage"}]}

\* How many Config objects are constructed.
MaxConfigs == 2

\* line 50: dict.copy() is shallow: the new dict has the items of the old
\* one, its "storage" is the very dict object the class attribute refers to.
ShallowCopy(d, heap) == [config |-> d, heap |-> heap]

\* update_dict(self.config, custom_config) (lines 62-69) on the copy c: a
\* dict is merged into the dict object that is already there, anything else
\* replaces the item.
UpdateConfig(c, custom) ==
    LET target == c.config
        url == IF "vector_db_url" \in custom.has THEN custom.vector_db_url
               ELSE target.vector_db_url
    IN  IF "storage" \notin custom.has
        THEN [c EXCEPT !.config.vector_db_url = url]
        ELSE IF custom.dict /\ target.storage.dict
        THEN [config |-> [target EXCEPT !.vector_db_url = url],
              heap |-> [c.heap EXCEPT ![target.storage.at] =
                          [k \in DOMAIN @ |->
                              IF k \in DOMAIN custom.storage THEN custom.storage[k]
                              ELSE @[k]]]]
        ELSE [config |-> [target EXCEPT !.vector_db_url = url, !.storage = PlainString],
              heap |-> c.heap]

\* Config(config_file) (lines 48-58)
ConfigInit ==
    /\ Len(config_objects.instances) < MaxConfigs
    /\ \E custom \in CustomConfigs :
         LET c == UpdateConfig(ShallowCopy(DEFAULT_CONFIG, config_objects.heap), custom)
         IN  config_objects' =
                 [config_objects EXCEPT
                    !.heap = c.heap,
                    !.instances = Append(@, [config |-> c.config,
                                             file |-> custom.has # {}])]
    /\ UNCHANGED <<steps, metrics, max_workers, runVars, readVars, previous, objects, out,
                   classifyVars, extractVars, record, work, batch>>

\* get(key) (lines 79-90) on the dict d, for the keys of the model.
Lookup(d, heap, key) ==
    CASE key = "vector_db_url" -> d.vector_db_url
      [] key = "storage.processed_dir" ->
            IF d.storage.dict THEN heap[d.storage.at].processed_dir ELSE None
      [] key = "storage.failed_dir" ->
            IF d.storage.dict THEN heap[d.storage.at].failed_dir ELSE None

ConfigKeys == {"vector_db_url", "storage.processed_dir", "storage.failed_dir"}

\* some_config.get(key): the value handed back is kept as `got`.
ConfigGet ==
    /\ \E i \in DOMAIN config_objects.instances, key \in ConfigKeys :
         config_objects' =
             [config_objects EXCEPT
                !.got = [of |-> i, key |-> key,
                         value |-> Lookup(config_objects.instances[i].config,
                                          config_objects.heap, key)]]
    /\ UNCHANGED <<steps, metrics, max_workers, runVars, readVars, previous, objects, out,
                   classifyVars, extractVars, record, work, batch>>

\* The class is loaded, no Config is constructed yet.
InitSettings ==
    /\ Constructed(<<>>, 1, 0)
    /\ Classifiers([file_type |-> "", content |-> [none |-> TRUE, text |-> <<>>]])
    /\ Unbuilt(DefaultConfig, Request("", NoContent, <<>>))
    /\ record = NoDoc
    /\ work = <<>>
    /\ batch = NoBatch
    /\ config_objects = [state |-> "loaded", heap |-> <<DefaultStorage>>, instances |-> <<>>,
                         got |-> [of |-> 0, key |-> "", value |-> None]]

Settings == ConfigInit \/ ConfigGet

SpecSettings == InitSettings /\ [][Settings]_vars

\* ------------------------------------------------------- BatchProcessor
\* How many files process_directory finds.
MaxBatch == 3

\* What a call of process_document (batch_process.py 69-158) ends with: the
\* record of a processed file, an error record (the early returns and the
\* except branch), or an exception of its own (the except branch writes a
\* file, lines 148-154).
Outcomes == {"processed", "error", "raised"}

NotBatch == <<steps, metrics, max_workers, runVars, readVars, previous, objects, out,
              classifyVars, extractVars, record, work, config_objects>>

Futures == DOMAIN batch.futures

Running == {f \in Futures : batch.futures[f] = "running"}

\* A worker thread of the executor takes the next submitted call; at most
\* max_workers threads exist (line 215).
StartWorker ==
    /\ batch.state = "submitted"
    /\ Cardinality(Running) < batch.max_workers
    /\ \E f \in Futures :
         /\ batch.futures[f] = "pending"
         /\ \A g \in Futures : g < f => batch.futures[g] # "pending"
         /\ batch' = [batch EXCEPT !.futures[f] = "running"]
    /\ UNCHANGED NotBatch

\* process_document(f) ends in its worker thread (lines 69-158).
WorkerDone ==
    /\ batch.state = "submitted"
    /\ \E f \in Running, outcome \in Outcomes :
         batch' = [batch EXCEPT !.futures[f] = outcome]
    /\ UNCHANGED NotBatch

\* (an except branch that counts nothing)
Swallowed(b, f) ==
    [b EXCEPT !.results = Append(@, [file_path |-> f, status |-> "error"])]

\* lines 232-239: future.result() raised
ExecutorError(b, f) ==
    [b EXCEPT !.failed = @ + 1,
              !.results = Append(@, [file_path |-> f, status |-> "error"])]

\* lines 224-230: future.result() handed back the record of file f
Counted(b, f) ==
    [b EXCEPT !.results = Append(@, [file_path |-> f, status |-> b.futures[f]]),
              !.successful = IF b.futures[f] = "processed" THEN @ + 1 ELSE @,
              !.failed = IF b.futures[f] = "processed" THEN @ ELSE @ + 1]

\* One turn of the loop over as_completed (lines 220-241): it yields a
\* future that is done and was not yielded before, in any order.
Gather ==
    /\ batch.state = "submitted"
    /\ \E f \in Futures \ batch.yielded :
         /\ batch.futures[f] \in Outcomes
         /\ batch' = [(IF batch.futures[f] = "raised" THEN ExecutorError(batch, f)
                       ELSE Counted(batch, f))
                          EXCEPT !.yielded = @ \cup {f}]
    /\ UNCHANGED NotBatch

\* lines 243-252: every future was yielded, the summary is handed back.
Summarise ==
    /\ batch.state = "submitted"
    /\ batch.yielded = Futures
    /\ batch' = [batch EXCEPT
                   !.state = "returned",
                   !.summary = [status |-> "completed",
                                total_files |-> Len(batch.futures),
                                processed |-> batch.successful,
                                failed |-> batch.failed,
                                files |-> batch.results]]
    /\ UNCHANGED NotBatch

NoSummary == [status |-> "", total_files |-> 0, processed |-> 0, failed |-> 0, files |-> <<>>]

\* process_directory up to line 217: the files are found (the list is not
\* empty) and every one is submitted to the executor.
InitBatch ==
    /\ Constructed(<<>>, 1, 0)
    /\ Classifiers([file_type |-> "", content |-> [none |-> TRUE, text |-> <<>>]])
    /\ Unbuilt(DefaultConfig, Request("", NoContent, <<>>))
    /\ record = NoDoc
    /\ work = <<>>
    /\ config_objects = NoConfigs
    /\ \E n \in 1..MaxBatch, w \in 1..MaxWorkers :
         batch = [state |-> "submitted", max_workers |-> w,
                  futures |-> [f \in 1..n |-> "pending"], yielded |-> {},
                  results |-> <<>>, successful |-> 0, failed |-> 0,
                  summary |-> NoSummary]

ProcessDirectory == StartWorker \/ WorkerDone \/ Gather \/ Summarise

SpecBatch == InitBatch /\ [][ProcessDirectory]_vars

\* ========================================================================
\* Properties
\* ========================================================================
InRun(t) == pc[t] # "idle"
Ended(t) == pc[t] \in {"returned", "raised"}

\* The pipeline_steps list of the run of thread t (the list of line 34).
Trail(t) == lists[t]["run_list"]

\* The statuses of the entries of a trail, in order.
Statuses(tr) == [j \in 1 .. Len(tr) |-> tr[j].status]

\* ---------------------------------------------------------------- C1
\* C1: a single run() invokes the steps strictly in registration order: the
\* j-th call is to the j-th registered step, a step is called only when
\* every earlier step has its outcome entry (so no two steps of one run are
\* ever in progress together), and the entries of pipeline_steps name the
\* steps in that same order, whichever steps failed.
C1_StepOrder ==
    \A t \in Threads : InRun(t) =>
        /\ \A j \in 1 .. Len(calls[t]) : calls[t][j] = j
        /\ \A j \in 1 .. Len(Trail(t)) : Trail(t)[j].step = steps[j].name
        /\ Len(Trail(t)) <= Len(calls[t])
        /\ Len(calls[t]) <= Len(Trail(t)) + 1
        /\ pc[t] = "in_step" =>
               /\ Len(calls[t]) = step_no[t]
               /\ Len(Trail(t)) = step_no[t] - 1

\* A run of three steps in which the first and the last step failed.
C1_Witness ==
    \E t \in Threads :
        /\ pc[t] = "returned"
        /\ Len(steps) = 3
        /\ calls[t] = <<1, 2, 3>>
        /\ Statuses(Trail(t)) = <<"error", "success", "error">>

\* ---------------------------------------------------------------- C7
\* C7: run() works on a copy: while run() executes and after it returned or
\* raised, the dict the caller passed in holds exactly the items it held
\* when passed (no pipeline_steps key appears on it, a pipeline_steps list it
\* carried is untouched), current_doc is never that dict, and the trail of
\* the run starts empty: it holds entries of this run's steps only.
C7_InputNotMutated ==
    \A t \in Threads : InRun(t) =>
        /\ dicts[t]["document"] = given[t]
        /\ lists[t]["caller_list"] =
               (IF given[t].pipeline_steps = NoKey THEN <<>> ELSE <<StaleEntry>>)
        /\ current_doc[t] # "document"
        /\ \A j \in 1 .. Len(Trail(t)) : Trail(t)[j] # StaleEntry
        /\ Len(Trail(t)) <= Len(calls[t])
        /\ Len(calls[t]) = 1 /\ pc[t] = "in_step" => Trail(t) = <<>>

\* A run that returned after its steps wrote to the record, for a document
\* that came with a pipeline_steps list of its own.
C7_Witness ==
    \E t \in Threads :
        /\ pc[t] = "returned"
        /\ given[t].pipeline_steps = "caller_list"
        /\ current_doc[t] = "copy"
        /\ dicts[t]["copy"].content = 1
        /\ Len(Trail(t)) = 3

\* ---------------------------------------------------------------- C8
\* The bounds and the naming of the entries of the trail of a run.
C8_TrailBounded ==
    \A t \in Threads : InRun(t) =>
        /\ Len(Trail(t)) <= Len(steps)
        /\ Len(calls[t]) <= Len(steps)
        /\ \A j, k \in 1 .. Len(calls[t]) : calls[t][j] = calls[t][k] => j = k
        /\ \A j \in 1 .. Len(Trail(t)) :
               /\ Trail(t)[j].step = steps[calls[t][j]].name
               /\ Trail(t)[j].status \in {"success", "error"}
        /\ HasTrail(t) => TrailRef(t) = "run_list"

\* A step of a run leaves the entries there are in place.
C8_AppendOnly ==
    \A t \in Threads : InRun(t) /\ pc'[t] # "idle" /\ pc[t] # pc'[t] =>
        /\ Len(Trail(t)') >= Len(Trail(t))
        /\ Len(Trail(t)') <= Len(Trail(t)) + 1
        /\ \A j \in 1 .. Len(Trail(t)) : Trail(t)'[j] = Trail(t)[j]

\* C8: in every state of a run, pipeline_steps has at most as many entries
\* as there are registered steps, its j-th entry names the j-th step, no
\* step is invoked twice, a record that carries pipeline_steps carries the
\* list of this run, and the list only grows at its end: a step of the run
\* leaves the entries there are as they are.
C8_AuditTrail == [][C8_TrailBounded' /\ C8_AppendOnly]_vars

\* A full trail of three entries, the middle one an error entry.
C8_Witness ==
    \E t \in Threads :
        /\ Ended(t)
        /\ Len(Trail(t)) = 3
        /\ Len(Trail(t)) = Len(steps)
        /\ Trail(t)[2].status = "error"
        /\ Trail(t)[1].status = "success"

\* ---------------------------------------------------------------- C2
\* The step function called last by the run of thread t, as registered.
LastCalled(t) == steps[calls[t][Len(calls[t])]]

\* The j-th entry of the trail says that the step function raised.
StepFailedAt(t, j) ==
    /\ Trail(t)[j].status = "error"
    /\ Trail(t)[j].error = "step"

\* Some step not marked critical raised in the run of thread t.
NonCriticalRaised(t) ==
    \E j \in 1 .. Len(Trail(t)) : StepFailedAt(t, j) /\ ~steps[j].critical

\* A step marked critical raised in the run of thread t.
CriticalRaised(t) ==
    /\ pc[t] \in {"error_load", "error_store", "record_error", "raised"}
    /\ exc[t] = "step"
    /\ LastCalled(t).critical

C3_AtPropagation(t) ==
    CriticalRaised(t) /\ pc[t] = "raised" =>
        /\ Len(calls[t]) = step_no[t]
        /\ Len(Trail(t)) = Len(calls[t])
        /\ HasTrail(t)
        /\ Trail(t)[Len(Trail(t))] =
               [step |-> LastCalled(t).name, status |-> "error", error |-> "step"]
        /\ \A j \in 1 .. Len(Trail(t)) : Trail(t)[j].step = steps[j].name

C3_NothingAfter(t) ==
    CriticalRaised(t) /\ pc'[t] # "idle" =>
        /\ calls'[t] = calls[t]
        /\ pc'[t] \in {"error_load", "error_store", "record_error", "raised"}
        /\ exc'[t] = "step"
        /\ pc[t] = "raised" => pc'[t] = "raised" /\ lists'[t] = lists[t]

\* C3: when a step marked critical raises, run() calls no later step and
\* ends by raising; at the moment it raises, pipeline_steps holds one entry
\* per step called so far, the last one the error entry of the critical
\* step, and nothing is appended to it afterwards.
C3_CriticalAbort ==
    [][\A t \in Threads : C3_AtPropagation(t)' /\ C3_NothingAfter(t)]_vars

\* Steps [A, B, C] with B critical: B raised, run() raised with 2 entries.
C3_Witness ==
    \E t \in Threads :
        /\ pc[t] = "raised"
        /\ CriticalRaised(t)
        /\ Len(steps) = 3
        /\ step_no[t] = 2
        /\ Statuses(Trail(t)) = <<"success", "error">>

\* ---------------------------------------------------------------- C4
\* C4 as claimed: run() raises to its caller if and only if a step marked
\* critical raised, whatever the steps return.
C4_RaisesIffCritical ==
    \A t \in Threads : Ended(t) =>
        (pc[t] = "raised" <=> CriticalRaised(t))

\* ---------------------------------------------------------------- C5
\* Two quotients are the same number.
SameNumber(x, y) == x[1] * y[2] = y[1] * x[2]

\* What get_metrics is to report for a step that returned n times, taking
\* d in all, and raised m times.
Expected(n, m, d) ==
    [total |-> n + m, success |-> n, error |-> m,
     success_rate |-> IF n + m = 0 THEN Zero ELSE Quotient(n, n + m),
     avg_time |-> IF n = 0 THEN Zero ELSE Quotient(d, n)]

Reports(e, x) ==
    /\ e.total = x.total
    /\ e.success = x.success
    /\ e.error = x.error
    /\ SameNumber(e.success_rate, x.success_rate)
    /\ SameNumber(e.avg_time, x.avg_time)

\* C5 as claimed: after N successful and M failed attempts of step X over
\* run() calls made one after the other, get_metrics()[X] reports total =
\* N + M, success = N, error = M, success_rate = N / (N + M) (0 when N + M =
\* 0) and avg_time = (time of the N successful attempts) / N (0 when N = 0),
\* and no division by zero is raised.
C5_MetricsExact ==
    /\ frame.at # "zero_division"
    /\ \A n \in DOMAIN result :
           Reports(result[n],
                   Expected(attempts[n].ok, attempts[n].failed, attempts[n].oktime))

\* ---------------------------------------------------------------- C6
\* No run() call is being executed.
Quiescent == \A t \in Threads : pc[t] = "idle"

\* C6 as claimed: the counters are updated atomically: whenever the run()
\* calls issued by the thread pool have all ended, the success counter of a
\* step equals the number of its successful attempts and its cumulative
\* time the sum of their durations; likewise the error counter of a step
\* that failed in every call equals the number of its attempts.
C6_NoLostUpdate ==
    Quiescent =>
        \A n \in DOMAIN metrics :
            /\ metrics[n].success = attempts[n].ok
            /\ metrics[n].time = attempts[n].oktime
            /\ attempts[n].ok = 0 => metrics[n].error = attempts[n].failed

\* ---------------------------------------------------------------- C9
\* C9 as claimed: whatever run() calls execute while get_metrics() does,
\* every entry get_metrics() builds is consistent: total = success + error
\* and 0 <= success_rate <= 1, and the call does not raise.
C9_ConsistentSnapshot ==
    /\ frame.at # "zero_division"
    /\ \A n \in DOMAIN result :
           /\ result[n].total = result[n].success + result[n].error
           /\ result[n].success_rate[1] >= 0
           /\ result[n].success_rate[1] <= result[n].success_rate[2]

\* ---------------------------------------------------------------- C10
\* C10: get_metrics() is a pure read: no step of a get_metrics() call, and
\* nothing its caller does to the mapping it was handed, changes the
\* counters or the step list of the Pipeline; and a call that returns with
\* no run() since the call before returns a mapping equal to the one the
\* call before returned, also when the caller wrote to that one.
C10_PureRead ==
    [][/\ pc' = pc => metrics' = metrics /\ steps' = steps
       /\ frame.at = "return" /\ frame'.at = "idle" /\ previous.held
              => returned'.map = previous.map]_vars

\* A second call is about to return counters that are not zero, after the
\* caller wrote to the mapping of the first call.
C10_Witness ==
    /\ frame.at = "return"
    /\ previous.held
    /\ returned.held
    /\ \E n \in DOMAIN returned.map :
           /\ returned.map[n].success = Scribble
           /\ result[n].success > 0
           /\ result[n].error > 0

\* ---------------------------------------------------------------- C11
\* The nested dict objects that the record of the run of thread t refers to.
NestedObjectsOf(t) ==
    IF current_doc[t] = None THEN {} ELSE dicts[t][current_doc[t]].metadata

\* C11 as claimed: records are never shared between concurrent runs: of two
\* run() calls executing together, also when both were given the same input
\* record object, neither sees in its record (its nested mappings such as
\* metadata included) a write made by a step of the other, and the
\* pipeline_steps list of each is the list its own run created, holding
\* entries of its own calls only.
C11_RecordsNotShared ==
    \A t, u \in Threads : t # u /\ InRun(t) /\ InRun(u) =>
        /\ \A m \in NestedObjectsOf(u) : objects[m] # t
        /\ HasTrail(u) => TrailRef(u) = "run_list"
        /\ Len(Trail(u)) <= Len(calls[u])

\* ---------------------------------------------------------------- C20
\* The number of entries of a trail for step n with the given status.
EntriesFor(tr, n, st) ==
    Cardinality({ j \in 1 .. Len(tr) : tr[j].step = n /\ tr[j].status = st })

\* C20 as claimed: the counters start at zero and never decrease; each
\* attempt of a step adds one to exactly one of its two counters, whatever
\* the step returns; and when the run() call of the process has ended, the
\* success counter of every step equals the number of 'success' entries
\* appended for it and its error counter the number of 'error' entries.
C20_CountersMatchTrail ==
    [][\A n \in DOMAIN metrics :
         /\ metrics'[n].success >= metrics[n].success
         /\ metrics'[n].error >= metrics[n].error
         /\ \A t \in Threads : Ended(t)' =>
                /\ metrics'[n].success = EntriesFor(Trail(t)', n, "success")
                /\ metrics'[n].error = EntriesFor(Trail(t)', n, "error")
                /\ metrics'[n].success + metrics'[n].error
                       = attempts'[n].ok + attempts'[n].failed]_vars

\* ---------------------------------------------------------------- C19
\* C19 as claimed: the top-level status of a record is written only by the
\* caller that wraps run(), never by run() itself; the record that
\* process_document hands back has status 'processed' exactly when its run()
\* call returned normally, and status 'error' exactly when run() raised or
\* the checks of the file failed, with an error artifact written when run()
\* raised; the status is always one of the two.
C19_StatusByCaller ==
    \A t \in Threads :
        /\ InRun(t) => \A r \in ({"document", "copy", current_doc[t]} \ {None}) :
               dicts[t][r].status = NoKey
        /\ out[t].status # NoKey =>
               /\ out[t].status \in {"processed", "error"}
               /\ out[t].status = "processed" <=> out[t].run = "returned"
               /\ out[t].status = "error" <=> out[t].run \in {"raised", "not_run"}
               /\ out[t].run = "raised" => out[t].artifact = "error"

C13_NoVerdict(content) ==
    \/ content.none
    \/ content.text = <<>>
    \/ \A c \in DOMAIN Keywords :
           \A k \in DOMAIN Keywords[c].keywords :
               ~PhraseIn(Keywords[c].keywords[k], LowerText(content.text))

\* The label the extension tier gives a file type.
C13_ExtensionLabel(file_type) ==
    LET ft == Lower(file_type)
    IN  IF ft = ".pdf" THEN "pdf_document"
        ELSE IF ft \in {".jpg", ".jpeg", ".png", ".tiff", ".bmp"} THEN "image_document"
        ELSE IF ft \in {".doc", ".docx"} THEN "word_document"
        ELSE IF ft \in {".xls", ".xlsx"} THEN "spreadsheet"
        ELSE "unknown_document"

C14_FirstMaximal(scores, c, Below(_, _)) ==
    \A d \in DOMAIN scores :
        /\ ~Below(scores[c], scores[d])
        /\ d < c => Below(scores[d], scores[c])

C14_Smaller(x, y) == x < y

C14_Classifier ==
    LET scores == KeywordScores(Keywords, LowerText(cdoc.content.text))
    IN  (/\ cdoc.doc_type # NoKey
         /\ Truthy(cdoc.content)
         /\ \E c \in DOMAIN scores : scores[c] > 0)
            => \E c \in DOMAIN Keywords :
                   /\ Keywords[c].doc_type = cdoc.doc_type
                   /\ C14_FirstMaximal(scores, c, C14_Smaller)

C14_ZeroShot ==
    LET scores == ClassScores(DocumentClasses, LowerText(probe.content.text))
    IN  (/\ zs.count > 0
         /\ ~probe.content.none
         /\ \E c \in DOMAIN scores : scores[c][1] > 0)
            => \E c \in DOMAIN DocumentClasses :
                   /\ DocumentClasses[c].class = zs.last.class
                   /\ C14_FirstMaximal(scores, c, Less)

\* C14: when the maximum content score is positive, the class returned has
\* the maximum score, and of the classes that tie at the maximum it is the
\* one declared first in the table; for the keyword classifier and for the
\* zero-shot classifier.
C14_FirstDeclaredWins == C14_Classifier /\ C14_ZeroShot

\* 'contract invoice' scores one for invoice and one for contract in both
\* tables: both classifiers answered invoice, the class declared first.
C14_Witness ==
    /\ probe.content.text = <<"contract", "invoice">>
    /\ cdoc.content = probe.content
    /\ cdoc.doc_type = "invoice"
    /\ zs.count > 0
    /\ zs.last.class = "invoice"

\* ---------------------------------------------------------------- C15
\* The zero value of a type tag.
C15_Zero(type) ==
    CASE type = "string" -> Str(<<>>)
      [] type = "number" -> Float(<<0, 0>>)
      [] type = "integer" -> IntValue(0)
      [] type = "array" -> List(0)
      [] type = "object" -> Dict(0)

\* The result of the RAG engine after an error or an unparsable answer.
C15_Rag ==
    (extraction.engine = "rag" /\ extraction.mode = "filled")
        => \A i \in DOMAIN extraction.schema :
               LET info == extraction.schema[i]
                   fields == extraction.extracted_data.fields
               IN  /\ info.name \in DOMAIN fields
                   /\ fields[info.name] =
                          IF info.has_default THEN info.default ELSE C15_Zero(info.type)

\* The result of the rule-based fallback of the Extractor, for the fields no
\* pattern matched.
C15_Extractor ==
    (/\ extraction.engine = "extractor"
     /\ extraction.mode = "fallback"
     /\ extraction.doc_type \in DOMAIN ExtractorSchemas)
        => LET schema == ExtractorSchemas[extraction.doc_type]
               fields == extraction.extracted_data.fields
           IN  \A f \in DOMAIN schema \ DOMAIN extraction.captured :
                   /\ f \in DOMAIN fields
                   /\ fields[f] = C15_Zero(schema[f])

\* C15: in default-fill mode (the empty/error fallback) every field of the
\* schema is present in the result and holds its declared default, or the
\* zero value of its type tag when it declares none; no field is omitted or
\* left null.
C15_DefaultFilled == C15_Rag /\ C15_Extractor

\* ---------------------------------------------------------------- C16
\* The captured group without the characters that are neither a digit nor
\* a decimal point.
C16_Kept(group) == SelectSeq(group, LAMBDA c : c \in {"1", "5", "."})

\* The characters are the spelling of a number.
C16_IsNumber(kept) ==
    /\ \E i \in DOMAIN kept : kept[i] # "."
    /\ \A i, j \in DOMAIN kept : (kept[i] = "." /\ kept[j] = ".") => i = j

C17_AlwaysMapping ==
    extraction.engine # "none" => extraction.extracted_data.kind = "mapping"

\* ---------------------------------------------------------------- C18
\* C18: missing configuration is fatal at construction; no extraction client
\* is constructed without an API key, and no storage adapter without a
\* usable database path.
C18_FatalAtConstruction ==
    /\ llm_client.built = "ok" => llm_client.api_key
    /\ vector_store.built = "ok" => vector_store.db_path \notin {None, ""}

\* ------------------------------------------------------------------ C21
\* The positions at which name n is registered, and the last of them.
PositionsOf(n) == { i \in 1 .. Len(steps) : steps[i].name = n }
LastRegistered(n) == CHOOSE j \in PositionsOf(n) : \A i \in PositionsOf(n) : i <= j

\* How often the run of thread t has invoked the step at position j.
Invocations(t, j) == Cardinality({ k \in 1 .. Len(calls[t]) : calls[t][k] = j })

\* C21: when two steps are registered under one name, the bucket of that name
\* holds the outcomes of the last-registered of them only: once the run has
\* ended, neither counter of the bucket (which get_metrics reports as they
\* are, lines 92-93) exceeds the number of times that step was invoked.
C21_LastRegisteredWins ==
    \A t \in Threads :
        Ended(t) =>
            \A n \in StepNamesOf(steps) :
                Cardinality(PositionsOf(n)) > 1 =>
                    /\ metrics[n].success <= Invocations(t, LastRegistered(n))
                    /\ metrics[n].error <= Invocations(t, LastRegistered(n))

\* ------------------------------------------------------------------ C22
\* The step function raises: current_doc stays bound to the object the step
\* was handed, whatever the step wrote into that object stays written, and no
\* other object of the run is touched.
C22_Raise(t) ==
    (pc[t] = "in_step" /\ pc'[t] = "error_load") =>
        /\ current_doc'[t] = current_doc[t]
        /\ lists'[t] = lists[t]
        /\ \A r \in DictRefs \ {current_doc[t]} : dicts'[t][r] = dicts[t][r]

\* The handler of a raising step: the only write to the record is the error
\* entry appended to its pipeline_steps.
C22_Handler(t) ==
    (pc[t] \in {"error_load", "error_store", "record_error"} /\ exc[t] = "step") =>
        /\ current_doc'[t] = current_doc[t]
        /\ dicts'[t] = dicts[t]
        /\ lists'[t] =
             IF pc[t] = "record_error"
             THEN [lists[t] EXCEPT ![dicts[t][current_doc[t]].pipeline_steps] =
                     Append(@, [step |-> steps[step_no[t]].name, status |-> "error",
                                error |-> "step"])]
             ELSE lists[t]

\* After the handler of a non-critical step the next step is called.
C22_GoesOn(t) ==
    (/\ pc[t] = "record_error" /\ exc[t] = "step"
     /\ ~steps[step_no[t]].critical /\ step_no[t] < Len(steps)) =>
        /\ pc'[t] = "in_step"
        /\ calls'[t] = Append(calls[t], step_no[t] + 1)

\* C22: the Pipeline never rolls back: after a non-critical step raised, the
\* next step is called with the very record object the failing step was
\* handed, with everything the failing step wrote into it in place and without
\* any record it would have returned; the Pipeline itself changes the record
\* only by appending the error entry.
C22_NoRollback ==
    [][\A t \in Threads : C22_Raise(t) /\ C22_Handler(t) /\ C22_GoesOn(t)]_vars

\* The second step is being called after the first raised, having written to
\* the record it was handed: the record the second step receives carries that
\* write and the error entry.
C22_Witness ==
    \E t \in Threads :
        /\ pc[t] = "in_step"
        /\ calls[t] = <<1, 2>>
        /\ given[t].content = 0
        /\ current_doc[t] = "copy"
        /\ dicts[t]["copy"].content = 1
        /\ Trail(t) = <<[step |-> steps[1].name, status |-> "error", error |-> "step"]>>

\* ------------------------------------------------------------------ C23
\* The value of a key is something a step wrote, and it is not empty.
C23_Written(d) ==
    [content |-> ~d.content.none, doc_type |-> d.doc_type # NoKey,
     extracted_data |-> d.extracted_data # "absent"]

C23_NonEmpty(d) ==
    [content |-> Truthy(d.content), doc_type |-> d.doc_type \notin {NoKey, ""},
     extracted_data |-> d.extracted_data = "filled"]

\* C23: content, doc_type and extracted_data are only ever filled in: in a
\* run of the six registered steps, a key that holds a value written by a
\* step still holds one after every later step, and a non-empty value is
\* never followed by an empty or absent one.
C23_OnlyFilledIn ==
    [][\A k \in {"content", "doc_type", "extracted_data"} :
          /\ C23_Written(record.document)[k] => C23_Written(record'.document)[k]
          /\ C23_NonEmpty(record.document)[k] => C23_NonEmpty(record'.document)[k]]_vars

\* The index step has run on an invoice whose text, type and extracted data
\* earlier steps had written: the three keys still hold them.
C23_Witness ==
    /\ record.at = Len(steps) + 1
    /\ record.document.storage.keys = {"id", "location", "status"}
    /\ C23_NonEmpty(record.document) =
           [content |-> TRUE, doc_type |-> TRUE, extracted_data |-> TRUE]

\* ------------------------------------------------------------------ C24
\* C24: every failure of a step is in the audit trail: a step that did not
\* do its work (the file was not copied, the row was not inserted, the OCR
\* hit an error) has an entry with status "error" and its error counter was
\* incremented, and an entry with status "success" means the work was done.
C24_FailuresRecorded ==
    \A j \in 1 .. Len(work) :
        LET entry == record.document.pipeline_steps[j]
        IN  /\ entry.step = work[j].step
            /\ entry.status = "success" => work[j].done
            /\ ~work[j].done => entry.status = "error" /\ metrics[entry.step].error > 0

\* ------------------------------------------------------------------ C30
\* C30: in the six-step pipeline, once the index step has run on a record
\* for which the store step stored the file, the record still holds the
\* storage information of the store step (stored_path, category,
\* original_path), and the row the index step inserted holds the path the
\* file was stored at.
C30_StorageKept ==
    (Len(work) = Len(steps) /\ work[5].step = "store" /\ work[5].done) =>
        /\ {"stored_path", "category", "original_path"} \subseteq record.document.storage.keys
        /\ record.document.storage.stored_path = work[5].persisted
        /\ work[6].done => work[6].persisted = work[5].persisted

\* ------------------------------------------------------------------ C27
\* batch_process.py 145-158, main.py 98-100: the record the handler returns
\* (and writes to the failed directory) when run() has raised.
C27_Returned(t) == [dicts[t]["document"] EXCEPT !.status = "error"]

\* C27: when run() has raised, the record process_document returns is the
\* record it passed in plus status and error: it does not hold the list of
\* pipeline_steps that run() filled, nor what the steps wrote at the top
\* level of the record they were handed.
C27_ErrorRecord ==
    \A t \in Threads :
        pc[t] = "raised" =>
            /\ C27_Returned(t) = [given[t] EXCEPT !.status = "error"]
            /\ C27_Returned(t).pipeline_steps # "run_list"
            /\ given[t].pipeline_steps = NoKey => C27_Returned(t).pipeline_steps = NoKey

\* run() has raised after a critical step wrote to the record it was handed
\* and failed; the record of the run holds that write and the audit trail,
\* the caller's document holds neither.
C27_Witness ==
    \E t \in Threads :
        /\ pc[t] = "raised"
        /\ Len(Trail(t)) > 0
        /\ Trail(t)[Len(Trail(t))].status = "error"
        /\ dicts[t]["copy"].content = 1
        /\ dicts[t]["document"].content = 0
        /\ dicts[t]["document"].pipeline_steps = NoKey

\* ------------------------------------------------------------------ C25
\* The phrase p occurs in the text as whole words: its words are
\* consecutive words of the text.
C25_Occurs(p, text) ==
    \E i \in 1 .. (Len(text) - Len(p) + 1) : \A j \in 1 .. Len(p) : p[j] = text[i + j - 1]

\* The number of the phrases that so occur, each counted once.
C25_Count(phrases, text) ==
    Cardinality({i \in DOMAIN phrases : C25_Occurs(LowerText(phrases[i]), text)})

\* C25: an indicator adds to the score of its class exactly when it occurs
\* in the lowercased text as a whole word or phrase: not when it is only
\* part of a longer word, and also when it ends in punctuation and stands as
\* a word of its own; each indicator counts once.  For both classifiers,
\* once they have classified the probe.
C25_WholeWords ==
    LET text == LowerText(probe.content.text)
    IN  /\ (seen.count > 0 /\ Truthy(probe.content)) =>
               \A c \in DOMAIN keywords :
                   KeywordScore(keywords[c].keywords, text)
                       = C25_Count(keywords[c].keywords, text)
        /\ (zs.count > 0 /\ ~probe.content.none) =>
               \A c \in DOMAIN document_classes :
                   ClassScore(document_classes[c], text)[1]
                       = C25_Count(document_classes[c].indicators, text)
                             * document_classes[c].weight

\* ------------------------------------------------------------------ C29
\* C29: Config objects are isolated from each other and from the class
\* defaults: whatever files other Config objects were constructed from,
\* DEFAULT_CONFIG holds its values, a Config constructed without a file
\* answers get() with the defaults, and a Config constructed from a file
\* answers with what it was constructed with.
C29_Isolated ==
    /\ config_objects.heap[DEFAULT_CONFIG.storage.at] = DefaultStorage
    /\ \A i \in DOMAIN config_objects.instances :
         ~config_objects.instances[i].file =>
             \A key \in ConfigKeys :
                 Lookup(config_objects.instances[i].config, config_objects.heap, key)
                     = Lookup(DEFAULT_CONFIG, <<DefaultStorage>>, key)
    /\ config_objects.got.of > 0 /\ ~config_objects.instances[config_objects.got.of].file =>
         config_objects.got.value
             = Lookup(DEFAULT_CONFIG, <<DefaultStorage>>, config_objects.got.key)

\* ------------------------------------------------------------------ C28
EntriesOf(f) == {i \in DOMAIN batch.summary.files : batch.summary.files[i].file_path = f}

WithStatus(status) ==
    {i \in DOMAIN batch.summary.files : batch.summary.files[i].status = status}

\* C28: when process_directory returns for a non-empty file list, in whatever
\* order the workers ended, every submitted file has exactly one entry in
\* 'files', processed + failed = total_files = len(files), 'processed' is the
\* number of results with status 'processed', and a worker that raised has
\* one error entry and is counted once as failed.
C28_ExactAccounting ==
    batch.state = "returned" =>
        /\ \A f \in Futures : Cardinality(EntriesOf(f)) = 1
        /\ batch.summary.total_files = Len(batch.futures)
        /\ batch.summary.total_files = Len(batch.summary.files)
        /\ batch.summary.processed + batch.summary.failed = batch.summary.total_files
        /\ batch.summary.processed = Cardinality(WithStatus("processed"))
        /\ batch.summary.processed = Cardinality({f \in Futures : batch.futures[f] = "processed"})
        /\ batch.summary.failed = Cardinality({f \in Futures : batch.futures[f] # "processed"})
        /\ \A f \in Futures : batch.futures[f] = "raised" =>
               \A i \in EntriesOf(f) : batch.summary.files[i].status = "error"

\* A batch of three files returned: one processed, one error record, one
\* worker that raised, gathered in another order than they were submitted.
C28_Witness ==
    /\ batch.state = "returned"
    /\ batch.futures = <<"raised", "error", "processed">>
    /\ batch.summary.files[1].file_path = 3
    /\ batch.summary.files[3].file_path = 1
    /\ batch.summary.processed = 1
    /\ batch.summary.failed = 2

\* ------------------------------------------------------------------ C26
\* No action takes a thread out of a step that does not return, and no
\* further step of its run is invoked.
C26_Blocked(t) ==
    pc[t] = "hung" => pc'[t] = "hung" /\ calls'[t] = calls[t]

\* C26: run() invokes at most len(steps) step functions; a run whose invoked
\* steps all terminate completes (returns or raises); a run with a step that
\* never returns never completes and invokes no later step, while the run of
\* another thread on the same Pipeline still completes.
C26_Termination ==
    /\ [](\A t \in Threads : Len(calls[t]) <= Len(steps))
    /\ [][\A t \in Threads : C26_Blocked(t)]_vars
    /\ \A t \in Threads : (pc[t] # "idle") ~> (pc[t] \in RunOver \/ pc[t] = "hung")
    /\ \A t \in Threads : \A u \in Threads \ {t} :
           (pc[t] = "hung" /\ pc[u] \notin {"idle", "hung"})
               ~> (pc[u] \in RunOver \/ pc[u] = "hung")

\* One run is blocked in the step it called, another run on the same
\* Pipeline has called the step too and has returned.
C26_Witness ==
    \E t \in Threads : \E u \in Threads \ {t} :
        /\ Len(steps) = 1
        /\ pc[t] = "hung" /\ calls[t] = <<1>>
        /\ pc[u] = "returned" /\ calls[u] = <<1>>

====
